---- MODULE Spec2Model ----
(***************************************************************************)
(* A model of qualtrics_code/build_survey.py: the reconciliation run       *)
(* (main, Steps 1-4), the flow/embedded-data helpers it uses, and the      *)
(* retry loop of QualtricsClient._req.                                     *)
(*                                                                         *)
(* The remote survey is three objects.  questions and blocks are           *)
(* sequences: an object's id is its index (the platform never deletes, and *)
(* a POST appends), and a dictionary is iterated in index order.  flow is  *)
(* the list under the "Flow" key of the flow document.                     *)
(***************************************************************************)
EXTENDS Integers, Sequences, FiniteSets, TLC

VARIABLES
    questions,          \* remote: qid -> [DataExportTag, QuestionText]
    blocks,             \* remote: bid -> [Description, BlockElements]
    flow,               \* remote: the flow's element list
    pc,                 \* the run's position: the remote call it is about to make
    run,                \* number of the current run (runs are serialized)
    status,             \* main's return value for the current run (-1: running)
    err,                \* what ended the run: "none", "api", "ambiguous"
    question_qid,       \* main: question_qid (0: not yet known)
    is_new,             \* main: _is_new
    chatbot_block_id,   \* ensure_question_block: chatbot_block_id (0: None)
    created_new_block,  \* ensure_question_block: created_new_block
    all_blocks,         \* ensure_question_block: all_blocks (local copy)
    bid,                \* ensure_question_block: the foreign block being written
    q,                  \* update_question_text: q (local copy)
    flow_elements,      \* ensure_*: flow_elements as read by the last GET flow
    calls,              \* history: the remote calls the current run has issued
    prev,               \* history: how the previous run ended
    flowStart,          \* history: the remote flow when the current run started
    surveyStart,        \* history: questions and blocks when the run started
    blockPostedRun,     \* history: the run whose POST created the target block
    fnArg,              \* pure-function specifications: the input
    fnRes,              \* pure-function specifications: the result
    fnDone,             \* pure-function specifications: has the function run
    method,             \* _req: method_u
    max_attempts,       \* _req: max_attempts
    attempt,            \* _req: the loop variable
    sleeps,             \* _req: number of time.sleep calls made
    hist,               \* _req: what the server answered, attempt by attempt
    outcome,            \* _req: "running", "returned", "raised"
    callNo,             \* history: which logical call of the client this is
    usedBefore,         \* history: attempts made by the earlier logical calls
    error,              \* _req: the QualtricsAPIError it raised
    other,              \* concurrent runs: the invocation that is not running
    overlapped,         \* history: have the two invocations overlapped
    config,             \* main: what get_config and the field loaders returned
    env,                \* stanford_proxy: os.environ
    ip_doc,             \* stanford_proxy: the ip_tracking document of the IP
    now,                \* stanford_proxy: the clock, in seconds
    request,            \* stanford_proxy: the request being answered
    response,           \* stanford_proxy: the status it was answered with
    forwarded,          \* history: requests.post calls made to the upstream API
    store_ops,          \* history: reads and writes of ip_doc by this request
    handled,            \* history: number of requests answered
    inflight            \* stanford_proxy: the requests being handled at once

remoteVars == <<questions, blocks, flow>>
localVars == <<question_qid, is_new, chatbot_block_id, created_new_block,
               all_blocks, bid, q, flow_elements>>
histVars == <<calls, prev, flowStart, surveyStart, blockPostedRun>>
runVars == <<pc, run, status, err>>
fnVars == <<fnArg, fnRes, fnDone>>
reqVars == <<method, max_attempts, attempt, sleeps, hist, outcome, callNo,
             usedBefore, error>>
concVars == <<other, overlapped>>
proxyVars == <<env, ip_doc, now, request, response, forwarded, store_ops,
               handled, inflight>>
extVars == <<concVars, config, proxyVars>>
vars == <<remoteVars, localVars, histVars, runVars, fnVars, reqVars, extVars>>

(***************************************************************************)
(* Bounds of the model.                                                    *)
(***************************************************************************)
\* runs of main in one behaviour
MaxRuns == 2
\* objects (questions, blocks, block elements, flow elements) in the survey
\* the first run of Spec finds
MaxSurvey == 5
\* objects (blocks, block elements) in the survey Step 3 finds in SpecBlock
MaxBlockObjs == 5
\* elements of the flow Step 4 finds in SpecEmbed
MaxFlowLen == 4
\* flow ids in the list _next_flow_id is given in SpecFlowId, and the
\* largest number an id carries
MaxIdList == 3
MaxFlowNum == 3
\* fields in the list _upsert_embed_block is given in SpecMerge
MaxFields == 2
\* the largest max_attempts _req is configured with in SpecReq
MaxAttempts == 3
\* logical calls the client makes one after the other in SpecReq
MaxCalls == 2
\* the largest number of seconds a Retry-After header names in SpecBackoff
MaxRetryAfter == 3
\* the grain of durations in SpecBackoff
TicksPerSecond == 10

(***************************************************************************)
(* Small helpers.                                                          *)
(***************************************************************************)
Max(S) == CHOOSE x \in S : \A y \in S : y <= x

Min(S) == CHOOSE x \in S : \A y \in S : x <= y

SeqsUpTo(S, n) == UNION {[1..k -> S] : k \in 0..n}

RemoveAt(s, i) == SubSeq(s, 1, i - 1) \o SubSeq(s, i + 1, Len(s))

\* list.insert(pos, x) with a 0-based pos in 0..len
InsertAt(s, pos, x) == SubSeq(s, 1, pos) \o <<x>> \o SubSeq(s, pos + 1, Len(s))

(***************************************************************************)
(* Configuration of a run: it is the same in every run of a behaviour.     *)
(***************************************************************************)
\* config["data_export_tag"]
Tag == "chat_ui"

\* build_question_html(...): a deterministic blob, compared by equality
desired_text == "desired"

CHATBOT_BLOCK_DESCRIPTION == "AI Chatbot"

\* The alphabet of embedded-data keys, in the order sorted() gives them.
KeyOrder == <<"a", "b", "c">>

Keys == {KeyOrder[i] : i \in DOMAIN KeyOrder}

Values == {"1", "2"}

\* sorted(S) for a set of keys
Sorted(S) == SelectSeq(KeyOrder, LAMBDA k : k \in S)

\* all_data = {**shared_data, **question_data} of the run
all_data == [k \in {"a", "b"} |-> IF k = "a" THEN "1" ELSE "2"]

(***************************************************************************)
(* Flow ids.  An id is held as what _next_flow_id's parsing sees of it:    *)
(* the text before the first "_" (pfx), whether int() accepts the text     *)
(* after it (num) and the integer it then yields (n).  A missing FlowID is *)
(* the default "" of el.get("FlowID", "").                                 *)
(***************************************************************************)
FL(n) == [pfx |-> "FL", num |-> TRUE, n |-> n]

FLText == [pfx |-> "FL", num |-> FALSE, n |-> 0]

OtherId(n) == [pfx |-> "BL", num |-> TRUE, n |-> n]

NoFlowId == [pfx |-> "", num |-> FALSE, n |-> 0]

\* _next_flow_id: numbers of the ids that start with "FL_" and parse
ExistingNums(els) ==
    {els[i].FlowID.n : i \in {j \in DOMAIN els :
        els[j].FlowID.pfx = "FL" /\ els[j].FlowID.num}}

\* a variant that counts the ids instead of taking their maximum
NextFlowIdCount(els) == FL(Cardinality(ExistingNums(els)) + 1)

\* _next_flow_id(flow_elements)
NextFlowId(els) ==
    LET existing == ExistingNums(els)
        next_num == (IF existing = {} THEN 0 ELSE Max(existing)) + 1
    IN  FL(next_num)

(***************************************************************************)
(* Embedded data.                                                          *)
(***************************************************************************)
NoDescription == ""

Field(k, v, t, d) == [Field |-> k, Value |-> v, Type |-> t, Description |-> d]

\* the object _upsert_embed_block appends for a new key
NewField(k, data) == Field(k, data[k], "Custom", k)

\* _upsert_embed_block: one existing field_obj after the loop body
UpsertField(field_obj, data) ==
    IF field_obj.Field \in DOMAIN data
    THEN [field_obj EXCEPT !.Value = data[field_obj.Field],
                           !.Type = "Custom",
                           !.Description = IF @ = NoDescription
                                           THEN field_obj.Field ELSE @]
    ELSE field_obj

\* _upsert_embed_block: the keys left in `remaining` after the loop
Remaining(current, data) ==
    DOMAIN data \ {current[i].Field : i \in DOMAIN current}

\* a variant that puts the new fields before the existing ones
UpsertFieldsPrepend(current, data) ==
    [i \in 1..Cardinality(Remaining(current, data)) |->
        NewField(Sorted(Remaining(current, data))[i], data)]
    \o [i \in DOMAIN current |-> UpsertField(current[i], data)]

\* _upsert_embed_block, on the field list block["EmbeddedData"]
UpsertFields(current, data) ==
    [i \in DOMAIN current |-> UpsertField(current[i], data)]
    \o [i \in 1..Cardinality(Remaining(current, data)) |->
        NewField(Sorted(Remaining(current, data))[i], data)]

\* _upsert_embed_block(block, data)
UpsertEmbedBlock(block, data) ==
    [block EXCEPT !.EmbeddedData = UpsertFields(@, data)]

(***************************************************************************)
(* Flow elements.  Every element has the same four fields; ID is the block *)
(* a Standard element references (0 for an element that references none).  *)
(***************************************************************************)
EmbedElement(fid, fields) ==
    [Type |-> "EmbeddedData", FlowID |-> fid, ID |-> 0, EmbeddedData |-> fields]

BlockElement(fid, b) ==
    [Type |-> "Standard", FlowID |-> fid, ID |-> b, EmbeddedData |-> <<>>]

EmbedIndexes(els) == {i \in DOMAIN els : els[i].Type = "EmbeddedData"}

\* ensure_embedded_data: embed_index, 1-based (0: embed_block is None)
EmbedIndex(els) == IF EmbedIndexes(els) = {} THEN 0 ELSE Min(EmbedIndexes(els))

\* a variant that exchanges the element with the one at index 0
MoveEmbedSwap(els) ==
    IF EmbedIndex(els) = 0
    THEN <<EmbedElement(NextFlowId(els), <<>>)>> \o els
    ELSE [i \in DOMAIN els |->
            IF i = 1 THEN els[EmbedIndex(els)]
            ELSE IF i = EmbedIndex(els) THEN els[1] ELSE els[i]]

\* a variant that leaves an element it finds where it is
MoveEmbedKeep(els) ==
    IF EmbedIndex(els) = 0
    THEN <<EmbedElement(NextFlowId(els), <<>>)>> \o els
    ELSE els

\* ensure_embedded_data: flow_elements once the embedded-data element is first
MoveEmbedFirst(els) ==
    IF EmbedIndex(els) = 0
    THEN <<EmbedElement(NextFlowId(els), <<>>)>> \o els
    ELSE IF EmbedIndex(els) # 1
         THEN <<els[EmbedIndex(els)]>> \o RemoveAt(els, EmbedIndex(els))
         ELSE els

\* ensure_embedded_data: the flow it PUTs, from the flow it read
EnsureEmbeddedFlow(els, data) ==
    LET moved == MoveEmbedFirst(els)
    IN  [moved EXCEPT ![1] = UpsertEmbedBlock(@, data)]

\* ensure_question_block: the flow it PUTs after creating the block
InsertBlockFlow(els, b) ==
    InsertAt(els, IF els # <<>> THEN 1 ELSE 0, BlockElement(NextFlowId(els), b))

(***************************************************************************)
(* Questions and blocks.                                                   *)
(***************************************************************************)
Question(tag, text) == [DataExportTag |-> tag, QuestionText |-> text]

QuestionElement(qid) == [Type |-> "Question", QuestionID |-> qid]

PageBreak == [Type |-> "Page Break", QuestionID |-> 0]

Block(desc, elements) == [Description |-> desc, BlockElements |-> elements]

\* a variant that looks for the tag in the text of the question
FindQuestionIdsByText(qs, tag) ==
    {i \in DOMAIN qs : qs[i].QuestionText = tag}

\* find_question_ids_by_tag, as the set of ids found
FindQuestionIdsByTag(qs, tag) ==
    {i \in DOMAIN qs : qs[i].DataExportTag = tag}

\* a variant that takes the first of several matches
FindQuestionIdByTagFirst(qs, tag) ==
    LET ids == FindQuestionIdsByTag(qs, tag)
    IN  [raises |-> FALSE, id |-> IF ids = {} THEN 0 ELSE Min(ids)]

\* find_question_id_by_tag: None is id 0; more than one match raises
FindQuestionIdByTag(qs, tag) ==
    LET ids == FindQuestionIdsByTag(qs, tag)
    IN  IF ids = {} THEN [raises |-> FALSE, id |-> 0]
        ELSE IF Cardinality(ids) > 1 THEN [raises |-> TRUE, id |-> 0]
        ELSE [raises |-> FALSE, id |-> Min(ids)]

\* ensure_question_block: the first block whose Description is the target's
FindChatbotBlock(bs) ==
    LET hits == {b \in DOMAIN bs : bs[b].Description = CHATBOT_BLOCK_DESCRIPTION}
    IN  IF hits = {} THEN 0 ELSE Min(hits)

IsQuestionEl(el, qid) == el.Type = "Question" /\ el.QuestionID = qid

\* a variant that removes the elements of every question
RemoveAllQuestions(elements, qid) ==
    SelectSeq(elements, LAMBDA el : el.Type # "Question")

\* a variant that removes only the first matching element
RemoveFirstQuestion(elements, qid) ==
    LET hits == {i \in DOMAIN elements : IsQuestionEl(elements[i], qid)}
    IN  IF hits = {} THEN elements ELSE RemoveAt(elements, Min(hits))

\* ensure_question_block: a foreign block's elements without the question
RemoveQuestion(elements, qid) ==
    SelectSeq(elements, LAMBDA el : ~IsQuestionEl(el, qid))

\* a variant that never finds the question in the target block
AlreadyPresentNever(elements, qid) == FALSE

\* ensure_question_block: already_present
AlreadyPresent(elements, qid) ==
    \E i \in DOMAIN elements : IsQuestionEl(elements[i], qid)

\* ensure_question_block: the foreign blocks, from block `from` on, whose
\* element list the filter shortens
ForeignToFix(bs, target, qid, from) ==
    {b \in DOMAIN bs : b >= from /\ b # target
        /\ Len(RemoveQuestion(bs[b].BlockElements, qid)) # Len(bs[b].BlockElements)}

(***************************************************************************)
(* The run: main's try block, one action per remote call.  An action is    *)
(* the call together with the local computation that follows it up to the  *)
(* next call.  Every call goes through _req, which either returns or       *)
(* raises QualtricsAPIError; a call that changes the survey may also have  *)
(* been applied remotely although _req raised (the response was lost).     *)
(***************************************************************************)
\* The call each position is about to make: main's step, verb, object.
CallOf(p) ==
    CASE p = "s1_get_survey"   -> [step |-> 1, verb |-> "GET",  obj |-> "survey"]
      [] p = "s2_find"         -> [step |-> 2, verb |-> "GET",  obj |-> "survey"]
      [] p = "s2_get_question" -> [step |-> 2, verb |-> "GET",  obj |-> "question"]
      [] p = "s2_update_get"   -> [step |-> 2, verb |-> "GET",  obj |-> "question"]
      [] p = "s2_update_put"   -> [step |-> 2, verb |-> "PUT",  obj |-> "question"]
      [] p = "s2_post"         -> [step |-> 2, verb |-> "POST", obj |-> "question"]
      [] p = "s3_get_blocks"   -> [step |-> 3, verb |-> "GET",  obj |-> "survey"]
      [] p = "s3_post_block"   -> [step |-> 3, verb |-> "POST", obj |-> "block"]
      [] p = "s3_get_blocks2"  -> [step |-> 3, verb |-> "GET",  obj |-> "survey"]
      [] p = "s3_put_foreign"  -> [step |-> 3, verb |-> "PUT",  obj |-> "block"]
      [] p = "s3_put_target"   -> [step |-> 3, verb |-> "PUT",  obj |-> "block"]
      [] p = "s3_get_flow"     -> [step |-> 3, verb |-> "GET",  obj |-> "flow"]
      [] p = "s3_put_flow"     -> [step |-> 3, verb |-> "PUT",  obj |-> "flow"]
      [] p = "s4_get_flow"     -> [step |-> 4, verb |-> "GET",  obj |-> "flow"]
      [] p = "s4_put_flow"     -> [step |-> 4, verb |-> "PUT",  obj |-> "flow"]

CallPcs == {"s1_get_survey", "s2_find", "s2_get_question", "s2_update_get",
            "s2_update_put", "s2_post", "s3_get_blocks", "s3_post_block",
            "s3_get_blocks2", "s3_put_foreign", "s3_put_target", "s3_get_flow",
            "s3_put_flow", "s4_get_flow", "s4_put_flow"}

Mutating(verb) == verb \in {"POST", "PUT"}

\* The call at pc is issued.  same: the body of a PUT equals the object as
\* this step read it; raised: _req raised.
Issue(same, raised) ==
    calls' = Append(calls, [step |-> CallOf(pc).step, verb |-> CallOf(pc).verb,
                            obj |-> CallOf(pc).obj, same |-> same,
                            raised |-> raised])

\* The call returned: go on to the next call.
Goto(next) ==
    /\ pc' = next
    /\ status' = IF next = "done" THEN 0 ELSE status
    /\ err' = err

\* a variant in which main goes on with Step 4 after an error
RaiseAndGoOn(why) ==
    /\ pc' = "s4_get_flow"
    /\ status' = 1
    /\ err' = why

\* a variant whose except clauses return 0
RaiseReturnZero(why) ==
    /\ pc' = "failed"
    /\ status' = 0
    /\ err' = why

\* The call raised: main's except clauses return 1.
Raise(why) ==
    /\ pc' = "failed"
    /\ status' = 1
    /\ err' = why

\* ensure_question_block: target_block
TargetBlock(bs, target) ==
    IF target \in DOMAIN bs THEN bs[target]
    ELSE Block(CHATBOT_BLOCK_DESCRIPTION, <<>>)

\* a variant that goes on to the flow whether or not the block was created
BlockLoopPcThenFlow(bs, target, qid, from, created) ==
    IF ForeignToFix(bs, target, qid, from) # {} THEN "s3_put_foreign"
    ELSE IF ~AlreadyPresent(TargetBlock(bs, target).BlockElements, qid)
         THEN "s3_put_target"
         ELSE "s3_get_flow"

\* ensure_question_block: where the block loop goes on, from block `from`
BlockLoopPc(bs, target, qid, from, created) ==
    IF ForeignToFix(bs, target, qid, from) # {} THEN "s3_put_foreign"
    ELSE IF ~AlreadyPresent(TargetBlock(bs, target).BlockElements, qid)
         THEN "s3_put_target"
         ELSE IF created THEN "s3_get_flow" ELSE "s4_get_flow"

BlockLoopBid(bs, target, qid, from) ==
    IF ForeignToFix(bs, target, qid, from) # {}
    THEN Min(ForeignToFix(bs, target, qid, from)) ELSE 0

\* a variant in which main goes from Step 1 straight to Step 3
S1GetSurveyThenBlocks ==
    /\ pc = "s1_get_survey"
    /\ Issue(FALSE, FALSE)
    /\ Goto("s3_get_blocks")
    /\ UNCHANGED <<remoteVars, localVars, prev, flowStart, surveyStart,
                   blockPostedRun, run, fnVars, reqVars,
                   extVars>>

\* Step 1: ensure_survey -> verify_survey_exists -> GET survey-definitions
S1GetSurvey ==
    /\ pc = "s1_get_survey"
    /\ Issue(FALSE, FALSE)
    /\ Goto("s2_find")
    /\ UNCHANGED <<remoteVars, localVars, prev, flowStart, surveyStart,
                   blockPostedRun, run, fnVars, reqVars,
                   extVars>>

\* Step 2: find_question_id_by_tag (a GET of the survey definition)
S2Find ==
    /\ pc = "s2_find"
    /\ Issue(FALSE, FALSE)
    /\ LET r == FindQuestionIdByTag(questions, Tag)
       IN  /\ IF r.raises THEN Raise("ambiguous")
              ELSE IF r.id # 0 THEN Goto("s2_get_question")
              ELSE Goto("s2_post")
           /\ question_qid' = r.id
    /\ UNCHANGED <<remoteVars, is_new, chatbot_block_id, created_new_block,
                   all_blocks, bid, q, flow_elements, prev, flowStart, surveyStart,
                   blockPostedRun, run, fnVars, reqVars,
                   extVars>>

\* a variant that updates the text without comparing it
S2GetQuestionNoCompare ==
    /\ pc = "s2_get_question"
    /\ Issue(FALSE, FALSE)
    /\ Goto("s2_update_get")
    /\ UNCHANGED <<remoteVars, localVars, prev, flowStart, surveyStart,
                   blockPostedRun, run, fnVars, reqVars,
                   extVars>>

\* Step 2: get_question, then the comparison of current_text with desired_text
S2GetQuestion ==
    /\ pc = "s2_get_question"
    /\ Issue(FALSE, FALSE)
    /\ IF questions[question_qid].QuestionText # desired_text
       THEN Goto("s2_update_get") ELSE Goto("s3_get_blocks")
    /\ UNCHANGED <<remoteVars, localVars, prev, flowStart, surveyStart,
                   blockPostedRun, run, fnVars, reqVars,
                   extVars>>

\* Step 2: update_question_text, its get_question and q["QuestionText"] = new_text
S2UpdateGet ==
    /\ pc = "s2_update_get"
    /\ Issue(FALSE, FALSE)
    /\ q' = [questions[question_qid] EXCEPT !.QuestionText = desired_text]
    /\ Goto("s2_update_put")
    /\ UNCHANGED <<remoteVars, question_qid, is_new, chatbot_block_id,
                   created_new_block, all_blocks, bid, flow_elements, prev,
                   flowStart, surveyStart, blockPostedRun, run, fnVars, reqVars,
                   extVars>>

\* Step 2: update_question_text, its PUT
S2UpdatePut ==
    /\ pc = "s2_update_put"
    /\ \E lost \in BOOLEAN :
        /\ Issue(q = questions[question_qid], lost)
        /\ questions' = [questions EXCEPT ![question_qid] = q]
        /\ IF lost THEN Raise("api") ELSE Goto("s3_get_blocks")
    /\ UNCHANGED <<blocks, flow, localVars, prev, flowStart, surveyStart, blockPostedRun, run, fnVars, reqVars,
                   extVars>>

\* a variant that sends the POST again when its response is lost
S2PostRetried ==
    /\ pc = "s2_post"
    /\ \E lost \in BOOLEAN :
        /\ Issue(FALSE, FALSE)
        /\ questions' = IF lost
                        THEN questions \o <<Question(Tag, desired_text),
                                            Question(Tag, desired_text)>>
                        ELSE Append(questions, Question(Tag, desired_text))
        /\ question_qid' = Len(questions')
        /\ is_new' = TRUE
        /\ Goto("s3_get_blocks")
    /\ UNCHANGED <<blocks, flow, chatbot_block_id, created_new_block, all_blocks,
                   bid, q, flow_elements, prev, flowStart, surveyStart,
                   blockPostedRun, run, fnVars, reqVars, extVars>>

\* Step 2: create_descriptive_question, a POST
S2Post ==
    /\ pc = "s2_post"
    /\ \E lost \in BOOLEAN :
        /\ Issue(FALSE, lost)
        /\ questions' = Append(questions, Question(Tag, desired_text))
        /\ question_qid' = IF lost THEN question_qid ELSE Len(questions) + 1
        /\ is_new' = ~lost
        /\ IF lost THEN Raise("api") ELSE Goto("s3_get_blocks")
    /\ UNCHANGED <<blocks, flow, chatbot_block_id, created_new_block, all_blocks,
                   bid, q, flow_elements, prev, flowStart, surveyStart, blockPostedRun, run, fnVars, reqVars,
                   extVars>>

\* Step 3: get_blocks, the search for the target block, and the loop up to
\* its first write
S3GetBlocks ==
    /\ pc = "s3_get_blocks"
    /\ Issue(FALSE, FALSE)
    /\ all_blocks' = blocks
    /\ chatbot_block_id' = FindChatbotBlock(blocks)
    /\ IF FindChatbotBlock(blocks) = 0
       THEN /\ Goto("s3_post_block")
            /\ bid' = bid
       ELSE /\ Goto(BlockLoopPc(blocks, FindChatbotBlock(blocks), question_qid,
                                1, FALSE))
            /\ bid' = BlockLoopBid(blocks, FindChatbotBlock(blocks),
                                   question_qid, 1)
    /\ UNCHANGED <<remoteVars, question_qid, is_new, created_new_block, q,
                   flow_elements, prev, flowStart, surveyStart, blockPostedRun, run, fnVars, reqVars,
                   extVars>>

\* Step 3: create_block, a POST
S3PostBlock ==
    /\ pc = "s3_post_block"
    /\ \E lost \in BOOLEAN :
        /\ Issue(FALSE, lost)
        /\ blocks' = Append(blocks, Block(CHATBOT_BLOCK_DESCRIPTION, <<>>))
        /\ blockPostedRun' = run
        /\ chatbot_block_id' = IF lost THEN chatbot_block_id ELSE Len(blocks) + 1
        /\ created_new_block' = ~lost
        /\ IF lost THEN Raise("api") ELSE Goto("s3_get_blocks2")
    /\ UNCHANGED <<questions, flow, question_qid, is_new, all_blocks, bid, q,
                   flow_elements, prev, flowStart, surveyStart, run, fnVars, reqVars,
                   extVars>>

\* Step 3: the second get_blocks, after the block was created
S3GetBlocks2 ==
    /\ pc = "s3_get_blocks2"
    /\ Issue(FALSE, FALSE)
    /\ all_blocks' = blocks
    /\ Goto(BlockLoopPc(blocks, chatbot_block_id, question_qid, 1,
                        created_new_block))
    /\ bid' = BlockLoopBid(blocks, chatbot_block_id, question_qid, 1)
    /\ UNCHANGED <<remoteVars, question_qid, is_new, chatbot_block_id,
                   created_new_block, q, flow_elements, prev, flowStart, surveyStart,
                   blockPostedRun, run, fnVars, reqVars,
                   extVars>>

\* Step 3: update_block of one foreign block, and the loop up to the next write
S3PutForeign ==
    /\ pc = "s3_put_foreign"
    /\ bid \in DOMAIN blocks
    /\ LET bdata == [all_blocks[bid] EXCEPT
                        !.BlockElements = RemoveQuestion(@, question_qid)]
           local == [all_blocks EXCEPT ![bid] = bdata]
       IN  \E lost \in BOOLEAN :
            /\ Issue(bdata = all_blocks[bid], lost)
            /\ blocks' = [blocks EXCEPT ![bid] = bdata]
            /\ all_blocks' = local
            /\ IF lost
               THEN /\ Raise("api")
                    /\ bid' = bid
               ELSE /\ Goto(BlockLoopPc(local, chatbot_block_id, question_qid,
                                        bid + 1, created_new_block))
                    /\ bid' = BlockLoopBid(local, chatbot_block_id,
                                           question_qid, bid + 1)
    /\ UNCHANGED <<questions, flow, question_qid, is_new, chatbot_block_id,
                   created_new_block, q, flow_elements, prev, flowStart, surveyStart,
                   blockPostedRun, run, fnVars, reqVars,
                   extVars>>

\* Step 3: update_block of the target block, with the question appended
S3PutTarget ==
    /\ pc = "s3_put_target"
    /\ chatbot_block_id \in DOMAIN blocks
    /\ LET old == TargetBlock(all_blocks, chatbot_block_id)
           target_block == [old EXCEPT !.BlockElements =
                               Append(@, QuestionElement(question_qid))]
       IN  \E lost \in BOOLEAN :
            /\ Issue(target_block = old, lost)
            /\ blocks' = [blocks EXCEPT ![chatbot_block_id] = target_block]
            /\ all_blocks' = [b \in DOMAIN all_blocks |->
                                IF b = chatbot_block_id THEN target_block
                                ELSE all_blocks[b]]
            /\ IF lost THEN Raise("api")
               ELSE IF created_new_block THEN Goto("s3_get_flow")
               ELSE Goto("s4_get_flow")
    /\ UNCHANGED <<questions, flow, question_qid, is_new, chatbot_block_id,
                   created_new_block, bid, q, flow_elements, prev, flowStart, surveyStart,
                   blockPostedRun, run, fnVars, reqVars,
                   extVars>>

\* Step 3: get_flow, when the block was created in this run
S3GetFlow ==
    /\ pc = "s3_get_flow"
    /\ Issue(FALSE, FALSE)
    /\ flow_elements' = flow
    /\ Goto("s3_put_flow")
    /\ UNCHANGED <<remoteVars, question_qid, is_new, chatbot_block_id,
                   created_new_block, all_blocks, bid, q, prev, flowStart, surveyStart,
                   blockPostedRun, run, fnVars, reqVars,
                   extVars>>

\* Step 3: update_flow, with the new element for the block inserted
S3PutFlow ==
    /\ pc = "s3_put_flow"
    /\ LET new_flow == InsertBlockFlow(flow_elements, chatbot_block_id)
       IN  \E lost \in BOOLEAN :
            /\ Issue(new_flow = flow_elements, lost)
            /\ flow' = new_flow
            /\ IF lost THEN Raise("api") ELSE Goto("s4_get_flow")
    /\ UNCHANGED <<questions, blocks, localVars, prev, flowStart, surveyStart,
                   blockPostedRun, run, fnVars, reqVars,
                   extVars>>

\* a variant that works on the flow as it was when the run started
S4GetFlowAtStart ==
    /\ pc = "s4_get_flow"
    /\ Issue(FALSE, FALSE)
    /\ flow_elements' = flowStart
    /\ Goto("s4_put_flow")
    /\ UNCHANGED <<remoteVars, question_qid, is_new, chatbot_block_id,
                   created_new_block, all_blocks, bid, q, prev, flowStart,
                   surveyStart, blockPostedRun, run, fnVars, reqVars, extVars>>

\* Step 4: ensure_embedded_data, its get_flow
S4GetFlow ==
    /\ pc = "s4_get_flow"
    /\ Issue(FALSE, FALSE)
    /\ flow_elements' = flow
    /\ Goto("s4_put_flow")
    /\ UNCHANGED <<remoteVars, question_qid, is_new, chatbot_block_id,
                   created_new_block, all_blocks, bid, q, prev, flowStart, surveyStart,
                   blockPostedRun, run, fnVars, reqVars,
                   extVars>>

\* Step 4: ensure_embedded_data, its update_flow; then main returns 0
S4PutFlow ==
    /\ pc = "s4_put_flow"
    /\ LET new_flow == EnsureEmbeddedFlow(flow_elements, all_data)
       IN  \E lost \in BOOLEAN :
            /\ Issue(new_flow = flow_elements, lost)
            /\ flow' = new_flow
            /\ IF lost THEN Raise("api") ELSE Goto("done")
    /\ UNCHANGED <<questions, blocks, localVars, prev, flowStart, surveyStart,
                   blockPostedRun, run, fnVars, reqVars,
                   extVars>>

\* _req raises QualtricsAPIError and the call had no effect on the survey
CallFails ==
    /\ pc \in CallPcs
    /\ Issue(FALSE, TRUE)
    /\ Raise("api")
    /\ UNCHANGED <<remoteVars, localVars, prev, flowStart, surveyStart,
                   blockPostedRun, run, fnVars, reqVars,
                   extVars>>

\* The next invocation of main, with the same configuration.
NextRun ==
    /\ pc \in {"done", "failed"}
    /\ run < MaxRuns
    /\ run' = run + 1
    /\ pc' = "s1_get_survey"
    /\ status' = -1
    /\ err' = "none"
    /\ question_qid' = 0
    /\ is_new' = FALSE
    /\ chatbot_block_id' = 0
    /\ created_new_block' = FALSE
    /\ all_blocks' = <<>>
    /\ bid' = 0
    /\ q' = Question("", "")
    /\ flow_elements' = <<>>
    /\ calls' = <<>>
    /\ prev' = IF pc = "done" THEN "ok" ELSE "failed"
    /\ flowStart' = flow
    /\ surveyStart' = [questions |-> questions, blocks |-> blocks]
    /\ UNCHANGED <<remoteVars, blockPostedRun, fnVars, reqVars,
                   extVars>>

(***************************************************************************)
(* The surveys a run may find.                                             *)
(***************************************************************************)
QuestionKinds == {Question(Tag, desired_text), Question(Tag, "stale"),
                  Question("other", "stale")}

QuestionElements(nq) == {QuestionElement(i) : i \in 1..nq}

BlockKinds(elementKinds, n) ==
    {Block(d, e) : d \in {CHATBOT_BLOCK_DESCRIPTION, "Default"},
                   e \in SeqsUpTo(elementKinds, n)}

\* number of objects in a block list: the blocks and their elements
BlocksSize(bs) ==
    LET RECURSIVE Sum(_)
        Sum(i) == IF i = 0 THEN 0 ELSE 1 + Len(bs[i].BlockElements) + Sum(i - 1)
    IN  Sum(Len(bs))

\* the block lists of at most n objects
RECURSIVE BlockSeqs(_, _)
BlockSeqs(elementKinds, n) ==
    IF n <= 0 THEN {<<>>}
    ELSE {<<>>} \cup UNION {
            {<<b>> \o rest :
                rest \in BlockSeqs(elementKinds, n - 1 - Len(b.BlockElements))} :
            b \in BlockKinds(elementKinds, n - 1)}

\* Element lists of a flow: position i carries FlowID FL_i.
FlowKinds(nb, fieldLists) ==
    {[t |-> "E", f |-> fs, b |-> 0] : fs \in fieldLists}
    \cup {[t |-> "S", f |-> <<>>, b |-> b] : b \in 1..nb}

MkElement(k, i) ==
    IF k.t = "E" THEN EmbedElement(FL(i), k.f) ELSE BlockElement(FL(i), k.b)

Flows(nb, fieldLists, n) ==
    {[i \in DOMAIN ks |-> MkElement(ks[i], i)] :
        ks \in SeqsUpTo(FlowKinds(nb, fieldLists), n)}

IdleFn == fnArg = 0 /\ fnRes = 0 /\ fnDone = FALSE

\* None, for the attributes of QualtricsAPIError that are integers
NoneInt == -1

\* no QualtricsAPIError has been raised
NoError ==
    [kind |-> "none", status_code |-> NoneInt, attempt |-> NoneInt,
     max_attempts |-> NoneInt]

IdleReq ==
    /\ method = "GET" /\ max_attempts = 0 /\ attempt = 0 /\ sleeps = 0
    /\ hist = <<>> /\ outcome = "idle"
    /\ callNo = 0 /\ usedBefore = 0
    /\ error = NoError

InitLocals ==
    /\ question_qid = 0
    /\ is_new = FALSE
    /\ chatbot_block_id = 0
    /\ created_new_block = FALSE
    /\ all_blocks = <<>>
    /\ bid = 0
    /\ q = Question("", "")
    /\ flow_elements = <<>>

InitHist ==
    /\ calls = <<>>
    /\ prev = "none"
    /\ flowStart = flow
    /\ surveyStart = [questions |-> questions, blocks |-> blocks]
    /\ blockPostedRun = 0

\* the field list of the EmbeddedData elements the first run of Spec finds:
\* one field that is not among the desired keys (SpecEmbed has the others)
StartFieldLists == {<<Field("c", "1", "Custom", "c")>>}

(***************************************************************************)
(* The configuration main loads before its first remote call.  A raw value *)
(* of the environment is held as what float() or int() makes of it.        *)
(***************************************************************************)
\* a raw value that float() and int() accept, and the number they yield
Num(v) == [parses |-> "int", value |-> v]

\* a raw value that float() and int() reject ("abc", "")
NotNum == [parses |-> "none", value |-> 0]

\* a raw value that float() accepts and int() rejects ("1.5"): value is the
\* number float() yields, rounded down
Fraction(v) == [parses |-> "float", value |-> v]

\* not s.strip(): the strings of the model that are empty or blank
Blank(s) == s \in {"", " "}

\* re.fullmatch(r"SV_[a-zA-Z0-9]{10,20}", survey_id.strip()), on the survey
\* ids of the model
WellFormedSurveyId(s) == s \in {"SV_abcdefghij", " SV_abcdefghij "}

\* the configuration of a run that passes every check: temperature and
\* delay_per_word are counted in tenths
GoodConfig ==
    [api_token |-> "token", survey_id |-> "SV_abcdefghij",
     question_name |-> "chat_ui", prompt |-> "You are a helpful assistant",
     model |-> "gpt-4o", proxy_url |-> "https://proxy",
     temperature |-> Num(10), max_tokens |-> Num(1000), max_chats |-> Num(99),
     delay_per_word |-> Num(1), max_attempts |-> Num(5)]

\* the configurations main may load: the good one, and the good one with one
\* value replaced
Configs ==
    {GoodConfig}
    \cup {[GoodConfig EXCEPT !.api_token = ""]}
    \cup {[GoodConfig EXCEPT !.survey_id = v] :
            v \in {"", " ", "SV_short", " SV_abcdefghij "}}
    \cup {[GoodConfig EXCEPT !.question_name = v] : v \in {"", " "}}
    \cup {[GoodConfig EXCEPT !.prompt = v] : v \in {"", " "}}
    \cup {[GoodConfig EXCEPT !.model = ""]}
    \cup {[GoodConfig EXCEPT !.proxy_url = ""]}
    \cup {[GoodConfig EXCEPT !.temperature = v] :
            v \in {NotNum, Num(-1), Num(0), Num(20), Num(21)}}
    \cup {[GoodConfig EXCEPT !.max_tokens = v] :
            v \in {NotNum, Fraction(1), Num(0), Num(1)}}
    \cup {[GoodConfig EXCEPT !.max_chats = v] :
            v \in {NotNum, Fraction(1), Num(0), Num(1)}}
    \cup {[GoodConfig EXCEPT !.delay_per_word = v] :
            v \in {NotNum, Num(-1), Num(0)}}
    \cup {[GoodConfig EXCEPT !.max_attempts = v] : v \in {NotNum, Num(1)}}
    \cup {[GoodConfig EXCEPT !.api_token = "", !.survey_id = ""]}

\* float(raw) raises ValueError
FloatRaises(raw) == raw.parses = "none"

\* int(raw) raises ValueError
IntRaises(raw) == raw.parses # "int"

\* validate_inputs: the errors it collects
InputErrors(c) ==
    {e \in {"survey_id", "question_name", "prompt", "model", "proxy_url",
            "temperature", "max_tokens", "max_chats", "delay_per_word"} :
        CASE e = "survey_id" ->
                Blank(c.survey_id) \/ ~WellFormedSurveyId(c.survey_id)
          [] e = "question_name" -> Blank(c.question_name)
          [] e = "prompt" -> Blank(c.prompt)
          [] e = "model" -> Blank(c.model)
          [] e = "proxy_url" -> Blank(c.proxy_url)
          [] e = "temperature" ->
                FloatRaises(c.temperature)
                    \/ ~(0 <= c.temperature.value /\ c.temperature.value <= 20)
          [] e = "max_tokens" ->
                IntRaises(c.max_tokens) \/ c.max_tokens.value <= 0
          [] e = "max_chats" ->
                IntRaises(c.max_chats) \/ c.max_chats.value <= 0
          [] e = "delay_per_word" ->
                FloatRaises(c.delay_per_word) \/ c.delay_per_word.value < 0}

\* a variant that accepts every configuration
ValidateInputsLax(c) == TRUE

\* validate_inputs: TRUE when it returns, FALSE when it raises ValueError
ValidateInputs(c) == InputErrors(c) = {}

\* generate_embedded_data_fields({**shared_data, **question_data})
GenerateEmbeddedDataFields(data) ==
    [i \in DOMAIN Sorted(DOMAIN data) |->
        [key |-> Sorted(DOMAIN data)[i], value |-> data[Sorted(DOMAIN data)[i]],
         type |-> "text"]]

\* " " in key, on the keys of the model
HasSpace(key) == key \in {"a b", " "}

\* validate_embedded_field_keys: TRUE when it returns, FALSE when it raises
ValidateEmbeddedFieldKeys(fields) ==
    \A i \in DOMAIN fields :
        /\ fields[i].key # ""
        /\ ~HasSpace(fields[i].key)
        /\ \A j \in 1..(i - 1) : fields[j].key # fields[i].key

(***************************************************************************)
(* Two invocations of main against one survey.  One invocation runs: its   *)
(* position and locals are the variables of the run.  The other is         *)
(* suspended between two of its remote calls, and `other` holds its        *)
(* position and locals.                                                    *)
(***************************************************************************)
\* the invocation that runs, as a record
Running ==
    [pc |-> pc, run |-> run, status |-> status, err |-> err,
     question_qid |-> question_qid, is_new |-> is_new,
     chatbot_block_id |-> chatbot_block_id,
     created_new_block |-> created_new_block, all_blocks |-> all_blocks,
     bid |-> bid, q |-> q, flow_elements |-> flow_elements, calls |-> calls]

\* an invocation of main about to make its first remote call
Starting(r) ==
    [pc |-> "s1_get_survey", run |-> r, status |-> -1, err |-> "none",
     question_qid |-> 0, is_new |-> FALSE, chatbot_block_id |-> 0,
     created_new_block |-> FALSE, all_blocks |-> <<>>, bid |-> 0,
     q |-> Question("", ""), flow_elements |-> <<>>, calls |-> <<>>]

\* there is no other invocation
NoOther == [Starting(0) EXCEPT !.pc = "idle"]

\* an invocation is between its first remote call and its end
MidRun(inv) == inv.pc \in CallPcs /\ inv.calls # <<>>

\* The scheduler suspends the running invocation before its next remote call
\* and resumes the other one.
Switch ==
    /\ other.pc \in CallPcs
    /\ other' = Running
    /\ pc' = other.pc
    /\ run' = other.run
    /\ status' = other.status
    /\ err' = other.err
    /\ question_qid' = other.question_qid
    /\ is_new' = other.is_new
    /\ chatbot_block_id' = other.chatbot_block_id
    /\ created_new_block' = other.created_new_block
    /\ all_blocks' = other.all_blocks
    /\ bid' = other.bid
    /\ q' = other.q
    /\ flow_elements' = other.flow_elements
    /\ calls' = other.calls
    /\ overlapped' = (overlapped \/ MidRun(Running))
    /\ UNCHANGED <<remoteVars, prev, flowStart, surveyStart, blockPostedRun,
                   fnVars, reqVars, config, proxyVars>>

IdleConc == other = NoOther /\ overlapped = FALSE

(***************************************************************************)
(* stanford_proxy (app/main.py): the environment of the function.          *)
(***************************************************************************)
\* os.environ.get(name) of a variable that is not set
Unset == "(unset)"

IdleProxy ==
    /\ env = <<>>
    /\ ip_doc = <<>>
    /\ now = 0
    /\ request = <<>>
    /\ response = 0
    /\ forwarded = 0
    /\ store_ops = <<>>
    /\ handled = 0
    /\ inflight = <<>>

IdleExt == IdleConc /\ config = GoodConfig /\ IdleProxy

(***************************************************************************)
(* Spec: serialized runs of main against one survey.                       *)
(***************************************************************************)
Init ==
    /\ questions \in SeqsUpTo(QuestionKinds, MaxSurvey)
    /\ blocks \in BlockSeqs(QuestionElements(Len(questions)),
                            MaxSurvey - Len(questions))
    /\ flow \in Flows(Len(blocks), StartFieldLists,
                      MaxSurvey - Len(questions) - BlocksSize(blocks))
    /\ pc = "s1_get_survey"
    /\ run = 1
    /\ status = -1
    /\ err = "none"
    /\ InitLocals
    /\ InitHist
    /\ IdleFn
    /\ IdleReq
    /\ IdleExt

Next ==
    \/ S1GetSurvey
    \/ S2Find
    \/ S2GetQuestion
    \/ S2UpdateGet
    \/ S2UpdatePut
    \/ S2Post
    \/ S3GetBlocks
    \/ S3PostBlock
    \/ S3GetBlocks2
    \/ S3PutForeign
    \/ S3PutTarget
    \/ S3GetFlow
    \/ S3PutFlow
    \/ S4GetFlow
    \/ S4PutFlow
    \/ CallFails
    \/ NextRun

Spec == Init /\ [][Next]_vars

IdleRun ==
    /\ pc = "idle"
    /\ run = 0
    /\ status = -1
    /\ err = "none"
    /\ InitLocals
    /\ InitHist

(***************************************************************************)
(* SpecMain: one invocation of main from its first line: the checks that   *)
(* precede the client, then Steps 1-4.  A ValueError raised before the try *)
(* block is not caught: the interpreter ends with status 1.                *)
(***************************************************************************)
\* the largest survey (in objects) the run of SpecMain finds
MaxMainSurvey == 3
\* fields in the lists validate_embedded_field_keys is checked on
MaxKeyList == 2

\* main, from get_config to the construction of the client
MainStart ==
    /\ pc = "main"
    /\ IF IntRaises(config.max_attempts)
       THEN pc' = "invalid" /\ status' = 1 /\ err' = "value"
       ELSE IF config.api_token = ""
       THEN pc' = "no_token" /\ status' = 1 /\ err' = "token"
       ELSE IF ~ValidateInputs(config)
       THEN pc' = "invalid" /\ status' = 1 /\ err' = "value"
       ELSE IF ~ValidateEmbeddedFieldKeys(GenerateEmbeddedDataFields(all_data))
       THEN pc' = "invalid" /\ status' = 1 /\ err' = "value"
       ELSE pc' = "s1_get_survey" /\ status' = status /\ err' = err
    /\ UNCHANGED <<remoteVars, localVars, histVars, run, fnVars, reqVars,
                   extVars>>

InitMain ==
    /\ questions \in SeqsUpTo(QuestionKinds, MaxMainSurvey)
    /\ blocks \in BlockSeqs(QuestionElements(Len(questions)),
                            MaxMainSurvey - Len(questions))
    /\ flow \in Flows(Len(blocks), StartFieldLists,
                      MaxMainSurvey - Len(questions) - BlocksSize(blocks))
    /\ pc = "main"
    /\ run = 1
    /\ status = -1
    /\ err = "none"
    /\ InitLocals
    /\ InitHist
    /\ IdleFn
    /\ IdleReq
    /\ IdleConc
    /\ config \in Configs
    /\ IdleProxy

NextMain ==
    \/ MainStart
    \/ S1GetSurvey
    \/ S2Find
    \/ S2GetQuestion
    \/ S2UpdateGet
    \/ S2UpdatePut
    \/ S2Post
    \/ S3GetBlocks
    \/ S3PostBlock
    \/ S3GetBlocks2
    \/ S3PutForeign
    \/ S3PutTarget
    \/ S3GetFlow
    \/ S3PutFlow
    \/ S4GetFlow
    \/ S4PutFlow
    \/ CallFails

SpecMain == InitMain /\ [][NextMain]_vars

(***************************************************************************)
(* SpecConc: two invocations of main with the same configuration against   *)
(* one survey, their remote calls interleaved in any order.                *)
(***************************************************************************)
\* the largest survey (in objects) the two invocations of SpecConc find
MaxConcSurvey == 1

InitConc ==
    /\ questions \in SeqsUpTo(QuestionKinds, MaxConcSurvey)
    /\ blocks \in BlockSeqs(QuestionElements(Len(questions)),
                            MaxConcSurvey - Len(questions))
    /\ flow \in Flows(Len(blocks), StartFieldLists,
                      MaxConcSurvey - Len(questions) - BlocksSize(blocks))
    /\ pc = "s1_get_survey"
    /\ run = 1
    /\ status = -1
    /\ err = "none"
    /\ InitLocals
    /\ InitHist
    /\ IdleFn
    /\ IdleReq
    /\ other = Starting(2)
    /\ overlapped = FALSE
    /\ config = GoodConfig
    /\ IdleProxy

NextConc ==
    \/ S1GetSurvey
    \/ S2Find
    \/ S2GetQuestion
    \/ S2UpdateGet
    \/ S2UpdatePut
    \/ S2Post
    \/ S3GetBlocks
    \/ S3PostBlock
    \/ S3GetBlocks2
    \/ S3PutForeign
    \/ S3PutTarget
    \/ S3GetFlow
    \/ S3PutFlow
    \/ S4GetFlow
    \/ S4PutFlow
    \/ CallFails
    \/ Switch

SpecConc == InitConc /\ [][NextConc]_vars

(***************************************************************************)
(* SpecBlock: Step 3 alone (ensure_question_block), on any block list.     *)
(* Step 2 has returned question 1.                                         *)
(***************************************************************************)
InitBlock ==
    /\ questions = <<Question(Tag, desired_text), Question("other", "stale")>>
    /\ blocks \in BlockSeqs(QuestionElements(2) \cup {PageBreak}, MaxBlockObjs)
    /\ flow \in Flows(0, {<<>>}, 1)
    /\ pc = "s3_get_blocks"
    /\ run = 1
    /\ status = -1
    /\ err = "none"
    /\ question_qid = 1
    /\ is_new = FALSE
    /\ chatbot_block_id = 0
    /\ created_new_block = FALSE
    /\ all_blocks = <<>>
    /\ bid = 0
    /\ q = Question("", "")
    /\ flow_elements = <<>>
    /\ InitHist
    /\ IdleFn
    /\ IdleReq
    /\ IdleExt

NextBlock ==
    \/ S3GetBlocks
    \/ S3PostBlock
    \/ S3GetBlocks2
    \/ S3PutForeign
    \/ S3PutTarget
    \/ S3GetFlow
    \/ S3PutFlow
    \/ CallFails

SpecBlock == InitBlock /\ [][NextBlock]_vars

(***************************************************************************)
(* SpecEmbed: Step 4 alone (ensure_embedded_data), on any flow.            *)
(***************************************************************************)
EmbedFieldLists ==
    {<<>>, <<Field("b", "1", "Recipient", NoDescription)>>,
     UpsertFields(<<>>, all_data)}

InitEmbed ==
    /\ questions = <<Question(Tag, desired_text)>>
    /\ blocks = <<Block(CHATBOT_BLOCK_DESCRIPTION, <<QuestionElement(1)>>)>>
    /\ flow \in Flows(1, EmbedFieldLists, MaxFlowLen)
    /\ pc = "s4_get_flow"
    /\ run = 1
    /\ status = -1
    /\ err = "none"
    /\ question_qid = 1
    /\ is_new = FALSE
    /\ chatbot_block_id = 1
    /\ created_new_block = FALSE
    /\ all_blocks = blocks
    /\ bid = 0
    /\ q = Question("", "")
    /\ flow_elements = <<>>
    /\ InitHist
    /\ IdleFn
    /\ IdleReq
    /\ IdleExt

NextEmbed ==
    \/ S4GetFlow
    \/ S4PutFlow
    \/ CallFails

SpecEmbed == InitEmbed /\ [][NextEmbed]_vars

(***************************************************************************)
(* SpecFlowId: _next_flow_id on any list of flow elements.                 *)
(***************************************************************************)
\* The ids an element may carry: FL_<n>, FL_<text>, another prefix, none.
FlowIdKinds ==
    {FL(n) : n \in 0..MaxFlowNum} \cup {FLText, OtherId(1), NoFlowId}

InitFlowId ==
    /\ questions = <<>> /\ blocks = <<>> /\ flow = <<>>
    /\ IdleRun
    /\ fnArg \in SeqsUpTo({BlockElement(f, 1) : f \in FlowIdKinds}, MaxIdList)
    /\ fnRes = NoFlowId
    /\ fnDone = FALSE
    /\ IdleReq
    /\ IdleExt

ApplyNextFlowId ==
    /\ ~fnDone
    /\ fnRes' = NextFlowId(fnArg)
    /\ fnDone' = TRUE
    /\ UNCHANGED <<fnArg, remoteVars, localVars, histVars, runVars, reqVars,
                   extVars>>

SpecFlowId == InitFlowId /\ [][ApplyNextFlowId]_vars

(***************************************************************************)
(* SpecMerge: _upsert_embed_block on any field list and any desired map.   *)
(***************************************************************************)
FieldKinds ==
    {Field(k, v, t, d) : k \in Keys, v \in Values,
                         t \in {"Custom", "Recipient"},
                         d \in {NoDescription, "note"}}

DataMaps == UNION {[D -> Values] : D \in SUBSET Keys}

InitMerge ==
    /\ questions = <<>> /\ blocks = <<>> /\ flow = <<>>
    /\ IdleRun
    /\ fnArg \in [current : SeqsUpTo(FieldKinds, MaxFields), data : DataMaps]
    /\ fnRes = <<>>
    /\ fnDone = FALSE
    /\ IdleReq
    /\ IdleExt

ApplyUpsert ==
    /\ ~fnDone
    /\ fnRes' = UpsertEmbedBlock(EmbedElement(FL(1), fnArg.current),
                                 fnArg.data).EmbeddedData
    /\ fnDone' = TRUE
    /\ UNCHANGED <<fnArg, remoteVars, localVars, histVars, runVars, reqVars,
                   extVars>>

SpecMerge == InitMerge /\ [][ApplyUpsert]_vars

(***************************************************************************)
(* SpecReq: one logical call of QualtricsClient._req.  An action is one    *)
(* iteration of its loop: session.request, then what the loop does with    *)
(* the answer (return, raise, or sleep and continue).                      *)
(***************************************************************************)
Methods == {"GET", "HEAD", "OPTIONS", "PUT", "DELETE", "POST", "PATCH"}

Statuses == {200, 204, 400, 401, 403, 404, 429, 500, 502, 503, 504}

\* a variant that counts POST as idempotent
IdempotentWithPost(m) == m \in {"GET", "HEAD", "OPTIONS", "PUT", "DELETE", "POST"}

\* _req: idempotent
Idempotent(m) == m \in {"GET", "HEAD", "OPTIONS", "PUT", "DELETE"}

\* a variant that retries 404 as well
RetryableWith404(st) == st \in {404, 429, 500, 502, 503, 504}

\* _req: the statuses it retries
Retryable(st) == st \in {429, 500, 502, 503, 504}

\* requests.Response.ok
Ok(st) == st < 400

InitReq ==
    /\ questions = <<>> /\ blocks = <<>> /\ flow = <<>>
    /\ IdleRun
    /\ IdleFn
    /\ IdleExt
    /\ method \in Methods
    /\ max_attempts \in 0..MaxAttempts
    /\ attempt = 1
    /\ sleeps = 0
    /\ hist = <<>>
    /\ outcome = "running"
    /\ callNo = 1
    /\ usedBefore = 0
    /\ error = NoError

\* a variant whose loop runs one more time
InLoopOneMore(a, m) == a <= m + 1

\* _req: attempt is in range(1, max_attempts + 1)
InLoop(a, m) == a <= m

\* _req: time.sleep(...) and continue
SleepAndContinue ==
    /\ sleeps' = sleeps + 1
    /\ attempt' = attempt + 1
    /\ outcome' = outcome
    /\ error' = error

\* _req: the error raised when session.request raised: no status_code
NetworkError(a, m) ==
    [kind |-> "network", status_code |-> NoneInt, attempt |-> a,
     max_attempts |-> m]

\* a variant that counts the attempt that would have come next
HttpErrorNextAttempt(st, a, m) ==
    [kind |-> "http", status_code |-> st, attempt |-> a + 1,
     max_attempts |-> m]

\* _req: the error raised for a response that is not ok
HttpError(st, a, m) ==
    [kind |-> "http", status_code |-> st, attempt |-> a, max_attempts |-> m]

\* _req: the error raised after the loop
ExhaustedError(m) ==
    [kind |-> "exhausted", status_code |-> NoneInt, attempt |-> m,
     max_attempts |-> m]

\* _req: session.request raised Timeout or ConnectionError
ReqNetworkError ==
    /\ outcome = "running"
    /\ InLoop(attempt, max_attempts)
    /\ hist' = Append(hist, [net |-> TRUE, status |-> 0])
    /\ IF Idempotent(method) /\ attempt < max_attempts
       THEN SleepAndContinue
       ELSE /\ outcome' = "raised"
            /\ error' = NetworkError(attempt, max_attempts)
            /\ UNCHANGED <<sleeps, attempt>>
    /\ UNCHANGED <<method, max_attempts, callNo, usedBefore, remoteVars,
                   localVars, histVars, runVars, fnVars,
                   extVars>>

\* _req: session.request returned a response
ReqResponse ==
    /\ outcome = "running"
    /\ InLoop(attempt, max_attempts)
    /\ \E st \in Statuses :
        /\ hist' = Append(hist, [net |-> FALSE, status |-> st])
        /\ IF Idempotent(method) /\ Retryable(st) /\ attempt < max_attempts
           THEN SleepAndContinue
           ELSE /\ outcome' = IF ~Ok(st) THEN "raised" ELSE "returned"
                /\ error' = IF ~Ok(st) THEN HttpError(st, attempt, max_attempts)
                            ELSE error
                /\ UNCHANGED <<sleeps, attempt>>
    /\ UNCHANGED <<method, max_attempts, callNo, usedBefore, remoteVars,
                   localVars, histVars, runVars, fnVars,
                   extVars>>

\* _req: the loop ended without returning (range(1, max_attempts + 1) is empty)
ReqExhausted ==
    /\ outcome = "running"
    /\ ~InLoop(attempt, max_attempts)
    /\ outcome' = "raised"
    /\ error' = ExhaustedError(max_attempts)
    /\ UNCHANGED <<method, max_attempts, attempt, sleeps, hist, callNo,
                   usedBefore, remoteVars, localVars, histVars, runVars, fnVars,
                   extVars>>

\* The client's next logical call: _req is entered again, its loop starts
\* at attempt 1 with the same max_attempts.
ReqNewCall ==
    /\ outcome \in {"returned", "raised"}
    /\ callNo < MaxCalls
    /\ callNo' = callNo + 1
    /\ usedBefore' = usedBefore + Len(hist)
    /\ method' \in Methods
    /\ attempt' = 1
    /\ sleeps' = 0
    /\ hist' = <<>>
    /\ outcome' = "running"
    /\ error' = NoError
    /\ UNCHANGED <<max_attempts, remoteVars, localVars, histVars, runVars,
                   fnVars,
                   extVars>>

\* one iteration of the loop of _req, or its end
ReqStep ==
    \/ ReqNetworkError
    \/ ReqResponse
    \/ ReqExhausted

NextReq ==
    \/ ReqNetworkError
    \/ ReqResponse
    \/ ReqExhausted
    \/ ReqNewCall

SpecReq == InitReq /\ [][NextReq]_vars

\* session.request is given a connect and a read timeout, so every attempt
\* ends, and the interpreter goes on with the loop.
SpecReqFair == SpecReq /\ WF_vars(ReqStep)

(***************************************************************************)
(* SpecBackoff: _sleep_backoff as _req calls it.  Durations are counted in *)
(* ticks, TicksPerSecond to the second; random.random() is one of the      *)
(* ticks of [0, 1).                                                        *)
(***************************************************************************)
\* the Retry-After header of a response: resp.headers.get("Retry-After")
NoHeader == [kind |-> "absent", secs |-> 0]

EmptyHeader == [kind |-> "empty", secs |-> 0]

\* a header that is not a string of digits: "1.5", "-1", an HTTP date
TextHeader == [kind |-> "text", secs |-> 0]

DigitsHeader(n) == [kind |-> "digits", secs |-> n]

RetryAfterHeaders ==
    {NoHeader, EmptyHeader, TextHeader}
        \cup {DigitsHeader(n) : n \in 0..MaxRetryAfter}

\* QUALTRICS_RETRY_BACKOFF_BASE: 0.5 and the default 1.0
Bases == {TicksPerSecond \div 2, TicksPerSecond}

\* QUALTRICS_RETRY_BACKOFF_CAP: 2.0 and the default 30.0
Caps == {2 * TicksPerSecond, 30 * TicksPerSecond}

\* a variant that caps the Retry-After seconds too
SleepBackoffCapped(a, retry_after, base, cap, jitter) ==
    IF retry_after.kind = "digits"
    THEN Min({cap, retry_after.secs * TicksPerSecond})
    ELSE Min({cap, base * (2 ^ (a - 1)) + jitter})

\* _sleep_backoff(attempt, retry_after), with the environment's base and cap
\* and the value random.random() returned
SleepBackoff(a, retry_after, base, cap, jitter) ==
    IF retry_after.kind = "digits"
    THEN retry_after.secs * TicksPerSecond
    ELSE Min({cap, base * (2 ^ (a - 1)) + jitter})

InitBackoff ==
    /\ questions = <<>> /\ blocks = <<>> /\ flow = <<>>
    /\ IdleRun
    /\ fnArg \in [attempt : 1..MaxAttempts, net : BOOLEAN,
                  header : RetryAfterHeaders, base : Bases, cap : Caps,
                  jitter : 0..(TicksPerSecond - 1)]
    /\ fnRes = 0
    /\ fnDone = FALSE
    /\ IdleReq
    /\ IdleExt

\* _req: sleep_s = self._sleep_backoff(attempt, None) after a network failure,
\* self._sleep_backoff(attempt, resp.headers.get("Retry-After")) after a
\* response
ApplySleepBackoff ==
    /\ ~fnDone
    /\ fnRes' = SleepBackoff(fnArg.attempt,
                             IF fnArg.net THEN NoHeader ELSE fnArg.header,
                             fnArg.base, fnArg.cap, fnArg.jitter)
    /\ fnDone' = TRUE
    /\ UNCHANGED <<fnArg, remoteVars, localVars, histVars, runVars, reqVars,
                   extVars>>

SpecBackoff == InitBackoff /\ [][ApplySleepBackoff]_vars

(***************************************************************************)
(* SpecVerify: verify_survey_exists when its GET of the survey definition  *)
(* fails: the error _req raises, and the error verify_survey_exists        *)
(* raises in its place.                                                    *)
(***************************************************************************)
\* None, for the attributes of QualtricsAPIError that are strings
NoneStr == "None"

\* what _extract_meta and resp.text give for a failed response
Metas ==
    [request_id : {NoneStr, "rid"}, error_code : {NoneStr, "EC"},
     error_message : {NoneStr, "msg"}, http_status : {NoneStr, "hs"},
     response_snippet : {"", "body"}]

NoMeta ==
    [request_id |-> NoneStr, error_code |-> NoneStr, error_message |-> NoneStr,
     http_status |-> NoneStr, response_snippet |-> NoneStr]

\* QualtricsAPIError(message, method=..., url=..., status_code=..., ...)
QualtricsAPIError(message, status_code, meta, a, m) ==
    [message |-> message, method |-> "GET", url |-> "survey-definitions",
     status_code |-> status_code, request_id |-> meta.request_id,
     error_code |-> meta.error_code, error_message |-> meta.error_message,
     http_status |-> meta.http_status,
     response_snippet |-> meta.response_snippet,
     attempt |-> a, max_attempts |-> m]

\* the ways a GET ends in an error: a network failure or a retryable status
\* on the last attempt, another status of 400 or more on any attempt, or no
\* attempt at all (max_attempts is 0)
FailedGets ==
    {[kind |-> "network", status |-> NoneInt, meta |-> NoMeta,
      attempt |-> m, max_attempts |-> m] : m \in 1..MaxAttempts}
    \cup {[kind |-> "exhausted", status |-> NoneInt, meta |-> NoMeta,
           attempt |-> 0, max_attempts |-> 0]}
    \cup {f \in [kind : {"http"}, status : Statuses, meta : Metas,
                  attempt : 1..MaxAttempts, max_attempts : 1..MaxAttempts] :
            /\ ~Ok(f.status)
            /\ IF Retryable(f.status) THEN f.attempt = f.max_attempts
               ELSE f.attempt <= f.max_attempts}

\* _req: the error it raises for a failed GET
ReqError(f) ==
    CASE f.kind = "exhausted" ->
            QualtricsAPIError("failed after retries", NoneInt, NoMeta,
                              f.max_attempts, f.max_attempts)
      [] f.kind = "network" ->
            QualtricsAPIError("network error", NoneInt, NoMeta,
                              f.attempt, f.max_attempts)
      [] f.kind = "http" ->
            QualtricsAPIError("request failed", f.status, f.meta,
                              f.attempt, f.max_attempts)

\* verify_survey_exists: the except clause
VerifyReraise(e) ==
    IF e.status_code = 403
    THEN [e EXCEPT !.message = "access denied",
                   !.attempt = NoneInt, !.max_attempts = NoneInt]
    ELSE IF e.status_code \in {404, 400}
    THEN [e EXCEPT !.message = "not found",
                   !.attempt = NoneInt, !.max_attempts = NoneInt]
    ELSE e

InitVerify ==
    /\ questions = <<>> /\ blocks = <<>> /\ flow = <<>>
    /\ IdleRun
    /\ fnArg \in FailedGets
    /\ fnRes = 0
    /\ fnDone = FALSE
    /\ IdleReq
    /\ IdleExt

ApplyVerify ==
    /\ ~fnDone
    /\ fnRes' = [orig |-> ReqError(fnArg),
                  raised |-> VerifyReraise(ReqError(fnArg))]
    /\ fnDone' = TRUE
    /\ UNCHANGED <<fnArg, remoteVars, localVars, histVars, runVars, reqVars,
                   extVars>>

SpecVerify == InitVerify /\ [][ApplyVerify]_vars

(***************************************************************************)
(* stanford_proxy (app/main.py) answering the requests of one client IP    *)
(* one at a time.  An action is one request, from the check of             *)
(* SERVICE_ENABLED to the return.  ALLOWED_ORIGINS is set (the function    *)
(* reads it without a default).                                            *)
(*   SpecProxy: any request, in any environment.                           *)
(*   SpecCap: the requests that pass the method, origin and token checks,  *)
(*   in the environments with the service and IP limiting enabled.         *)
(***************************************************************************)
\* requests answered in one behaviour of SpecProxy
MaxRequests == 2
\* requests answered in one behaviour of SpecCap
MaxAdmitted == 4
\* the largest IP_MAX_CALLS and IP_MAX_RATE_LIMIT_ERRORS
MaxIpCalls == 2
MaxRateErrors == 1
\* the time, in seconds, between two requests is 1 (within IP_RATE_LIMIT)
\* or MaxGap
MaxGap == 2

\* str.lower(), on the values of the model
Lower(s) == IF s \in {"True", "TRUE"} THEN "true" ELSE s

\* os.environ.get(name, default).lower() == 'true'
EnvIsTrue(e, name, default) ==
    Lower(IF e[name] = Unset THEN default ELSE e[name]) = "true"

\* x.replace(' ', ''), on the origins of the model
RemoveSpaces(x) == IF x = " https://b" THEN "https://b" ELSE x

\* ALLOWED_ORIGINS, as the list the function builds from it
AllowedOrigins(e) ==
    {RemoveSpaces(e.ALLOWED_ORIGINS[i]) : i \in DOMAIN e.ALLOWED_ORIGINS}

\* the environments of the function
Envs ==
    [SERVICE_ENABLED : {Unset, "True", "false"},
     ORIGIN_CHECK_ENABLED : {Unset, "false"},
     ENDPOINT_KEY_ENABLED : {Unset, "true"},
     ENDPOINT_KEY : {"k"},
     IP_LIMITING_ENABLED : {Unset, "false"},
     STANFORD_API_KEY : {Unset, "sk"},
     ALLOWED_ORIGINS : {<<"https://a", " https://b">>},
     IP_MAX_CALLS : 0..MaxIpCalls,
     IP_MAX_RATE_LIMIT_ERRORS : 1..MaxRateErrors,
     IP_RATE_LIMIT : {1}]

\* a POST that passes every check: method, Origin header, X-Survey-Token
\* header and whether the body is JSON
GoodRequest ==
    [method |-> "POST", origin |-> "https://b", token |-> "k", json |-> TRUE]

\* the requests a client sends: every method with an allowed or a foreign
\* origin and the right or a wrong token, and the good request without
\* Origin header, without X-Survey-Token header (Unset), without a JSON body
Requests ==
    [method : {"POST", "OPTIONS", "GET"},
     origin : {"https://b", "https://evil"},
     token : {"k", "bad"},
     json : {TRUE}]
    \cup {[GoodRequest EXCEPT !.origin = ""],
          [GoodRequest EXCEPT !.token = Unset],
          [GoodRequest EXCEPT !.json = FALSE],
          [GoodRequest EXCEPT !.method = "OPTIONS", !.origin = ""]}

\* what the upstream API answers: a status, or a body that is not JSON
Upstreams == {200, 500, 0}

\* fs_document.get() of a document that does not exist.  A field that the
\* document does not have reads as None, which the function's tests treat
\* as they treat 0.
NoDoc ==
    [exists |-> FALSE, last_call |-> 0, total_calls |-> 0,
     rate_limit_errors |-> 0]

NoRequest == [method |-> "", origin |-> "", token |-> Unset, json |-> FALSE]

NoOps == [reads |-> 0, writes |-> 0, posts |-> 0]

\* a variant that answers OPTIONS before it looks at SERVICE_ENABLED
GateOptionsFirst(e, r) ==
    IF r.method = "OPTIONS" THEN 204
    ELSE IF ~EnvIsTrue(e, "SERVICE_ENABLED", "true") THEN 503
    ELSE IF r.method # "POST" THEN 405
    ELSE IF EnvIsTrue(e, "ORIGIN_CHECK_ENABLED", "true")
            /\ (r.origin = "" \/ r.origin \notin AllowedOrigins(e)) THEN 401
    ELSE IF EnvIsTrue(e, "ENDPOINT_KEY_ENABLED", "false")
            /\ (r.token = Unset \/ r.token # e.ENDPOINT_KEY) THEN 401
    ELSE 0

\* a variant that does not look at the method of a request that is not OPTIONS
GateAnyMethod(e, r) ==
    IF ~EnvIsTrue(e, "SERVICE_ENABLED", "true") THEN 503
    ELSE IF r.method = "OPTIONS" THEN 204
    ELSE IF EnvIsTrue(e, "ORIGIN_CHECK_ENABLED", "true")
            /\ (r.origin = "" \/ r.origin \notin AllowedOrigins(e)) THEN 401
    ELSE IF EnvIsTrue(e, "ENDPOINT_KEY_ENABLED", "false")
            /\ (r.token = Unset \/ r.token # e.ENDPOINT_KEY) THEN 401
    ELSE 0

\* stanford_proxy, sections 0 and 1: the status it returns before it looks
\* at the client IP (0: it goes on)
Gate(e, r) ==
    IF ~EnvIsTrue(e, "SERVICE_ENABLED", "true") THEN 503
    ELSE IF r.method = "OPTIONS" THEN 204
    ELSE IF r.method # "POST" THEN 405
    ELSE IF EnvIsTrue(e, "ORIGIN_CHECK_ENABLED", "true")
            /\ (r.origin = "" \/ r.origin \notin AllowedOrigins(e)) THEN 401
    ELSE IF EnvIsTrue(e, "ENDPOINT_KEY_ENABLED", "false")
            /\ (r.token = Unset \/ r.token # e.ENDPOINT_KEY) THEN 401
    ELSE 0

\* fs_document.set({"last_call": now, "total_calls": Increment(1), ...},
\* merge=True), with Increment(1) of rate_limit_errors when errs is 1
Counted(d, t, errs) ==
    [exists |-> TRUE, last_call |-> t, total_calls |-> d.total_calls + 1,
     rate_limit_errors |-> d.rate_limit_errors + errs]

\* stanford_proxy, IP tracking: the status it returns (0: it goes on) and
\* the document it writes, from the document it read at time t
RateLimit(e, d, t) ==
    IF d.exists /\ d.total_calls # 0 /\ d.total_calls >= e.IP_MAX_CALLS
    THEN [status |-> 429, doc |-> Counted(d, t, 0)]
    ELSE IF d.exists /\ d.rate_limit_errors # 0
            /\ d.rate_limit_errors >= e.IP_MAX_RATE_LIMIT_ERRORS
    THEN [status |-> 429, doc |-> Counted(d, t, 0)]
    ELSE IF d.exists /\ t - d.last_call <= e.IP_RATE_LIMIT
    THEN [status |-> 429, doc |-> Counted(d, t, 1)]
    ELSE [status |-> 0, doc |-> Counted(d, t, 0)]

\* stanford_proxy, section 2: the status it returns and the number of
\* requests.post calls it makes.  A body that is not JSON makes
\* request_json.get raise before the call; an upstream body that is not
\* JSON makes response.json() raise after it.
Process(e, r, up) ==
    IF e.STANFORD_API_KEY = Unset THEN [status |-> 500, posts |-> 0]
    ELSE IF ~r.json THEN [status |-> 500, posts |-> 0]
    ELSE IF up = 0 THEN [status |-> 500, posts |-> 1]
    ELSE [status |-> up, posts |-> 1]

InitProxy ==
    /\ questions = <<>> /\ blocks = <<>> /\ flow = <<>>
    /\ IdleRun
    /\ IdleFn
    /\ IdleReq
    /\ IdleConc
    /\ config = GoodConfig
    /\ env \in Envs
    /\ ip_doc = NoDoc
    /\ now = 0
    /\ request = NoRequest
    /\ response = 0
    /\ forwarded = 0
    /\ store_ops = NoOps
    /\ handled = 0
    /\ inflight = <<>>

\* stanford_proxy(request): request r, gap seconds after the one before,
\* with the upstream API answering up if it is called
StanfordProxy(r, gap, up) ==
    /\ LET t == now + gap
           g == Gate(env, r)
           limiting == EnvIsTrue(env, "IP_LIMITING_ENABLED", "true")
           rl == IF limiting THEN RateLimit(env, ip_doc, t)
                 ELSE [status |-> 0, doc |-> ip_doc]
           p == Process(env, r, up)
           tracked == [reads |-> IF limiting THEN 1 ELSE 0,
                       writes |-> IF rl.doc # ip_doc THEN 1 ELSE 0,
                       posts |-> 0]
       IN  /\ request' = r
           /\ now' = t
           /\ handled' = handled + 1
           /\ IF g # 0
              THEN /\ response' = g
                   /\ store_ops' = NoOps
                   /\ UNCHANGED <<ip_doc, forwarded>>
              ELSE IF rl.status # 0
              THEN /\ response' = rl.status
                   /\ ip_doc' = rl.doc
                   /\ store_ops' = tracked
                   /\ UNCHANGED forwarded
              ELSE /\ response' = p.status
                   /\ ip_doc' = rl.doc
                   /\ store_ops' = [tracked EXCEPT !.posts = p.posts]
                   /\ forwarded' = forwarded + p.posts
    /\ UNCHANGED <<env, inflight, remoteVars, localVars, histVars, runVars,
                   fnVars, reqVars, concVars, config>>

\* a client sends a request
AnyRequest ==
    /\ handled < MaxRequests
    /\ \E r \in Requests, gap \in {1, MaxGap} :
        \E up \in (IF Process(env, r, 200).posts = 1
                   THEN Upstreams ELSE {200}) :
            StanfordProxy(r, gap, up)

SpecProxy == InitProxy /\ [][AnyRequest]_vars

\* a client sends a request that passes the checks of method, origin and
\* token
AdmittedRequest ==
    /\ handled < MaxAdmitted
    /\ \E r \in {x \in Requests : Gate(env, x) = 0}, gap \in {1, MaxGap} :
        \E up \in (IF Process(env, r, 200).posts = 1
                   THEN Upstreams ELSE {200}) :
            StanfordProxy(r, gap, up)

InitCap ==
    /\ InitProxy
    /\ EnvIsTrue(env, "SERVICE_ENABLED", "true")
    /\ EnvIsTrue(env, "IP_LIMITING_ENABLED", "true")

SpecCap == InitCap /\ [][AdmittedRequest]_vars


(***************************************************************************)
(* SpecRace: requests of one IP handled at once.  Each instance of the     *)
(* function reads the document of the IP (fs_document.get(), line 94) and  *)
(* later writes it (fs_document.set(..., merge=True), lines 105-136); the  *)
(* two are separate calls of the store, with no transaction around them,   *)
(* so other instances run between them.  What follows the write touches    *)
(* nothing the instances share.                                            *)
(***************************************************************************)

\* instances of the function that run at once
MaxInflight == 3

\* an instance that has not started
NoInstance ==
    [pc |-> "idle", request |-> NoRequest, doc |-> NoDoc, t |-> 0,
     status |-> 0, posts |-> 0]

\* lines 92-95 of one instance: a request that passes the checks of method,
\* origin and token arrives gap seconds after the one before; the instance
\* reads the document and the clock.  The instances are numbered in the
\* order in which their requests arrive.
ProxyGet(i, r, gap) ==
    /\ inflight[i].pc = "idle"
    /\ \A j \in 1..(i - 1) : inflight[j].pc # "idle"
    /\ Gate(env, r) = 0
    /\ now' = now + gap
    /\ inflight' = [inflight EXCEPT ![i] =
                       [pc |-> "read", request |-> r, doc |-> ip_doc,
                        t |-> now + gap, status |-> 0, posts |-> 0]]
    /\ UNCHANGED <<env, ip_doc, request, response, forwarded, store_ops,
                   handled, remoteVars, localVars, histVars, runVars,
                   fnVars, reqVars, concVars, config>>

\* lines 96-205 of one instance: it decides from the document it read,
\* writes last_call and the increments, which the store applies to the
\* document as it is now, and answers or goes on to the upstream API
ProxySet(i, up) ==
    /\ inflight[i].pc = "read"
    /\ LET me == inflight[i]
           rl == RateLimit(env, me.doc, me.t)
           errs == rl.doc.rate_limit_errors - me.doc.rate_limit_errors
           p == IF rl.status # 0 THEN [status |-> rl.status, posts |-> 0]
                ELSE Process(env, me.request, up)
       IN  /\ ip_doc' = Counted(ip_doc, me.t, errs)
           /\ inflight' = [inflight EXCEPT ![i] =
                              [me EXCEPT !.pc = "done", !.status = p.status,
                                         !.posts = p.posts]]
           /\ request' = me.request
           /\ response' = p.status
           /\ store_ops' = [reads |-> 1, writes |-> 1, posts |-> p.posts]
           /\ forwarded' = forwarded + p.posts
           /\ handled' = handled + 1
    /\ UNCHANGED <<env, now, remoteVars, localVars, histVars, runVars,
                   fnVars, reqVars, concVars, config>>

InitRace ==
    /\ questions = <<>> /\ blocks = <<>> /\ flow = <<>>
    /\ IdleRun
    /\ IdleFn
    /\ IdleReq
    /\ IdleConc
    /\ config = GoodConfig
    /\ env \in {e \in Envs : /\ EnvIsTrue(e, "SERVICE_ENABLED", "true")
                             /\ EnvIsTrue(e, "IP_LIMITING_ENABLED", "true")
                             /\ e.IP_MAX_CALLS >= 1}
    /\ ip_doc = NoDoc
    /\ now = 0
    /\ request = NoRequest
    /\ response = 0
    /\ forwarded = 0
    /\ store_ops = NoOps
    /\ handled = 0
    /\ inflight = [i \in 1..MaxInflight |-> NoInstance]

NextRace ==
    \/ \E i \in 1..MaxInflight, gap \in {1, MaxGap} :
           \E r \in {GoodRequest, [GoodRequest EXCEPT !.json = FALSE]} :
               ProxyGet(i, r, gap)
    \/ \E i \in 1..MaxInflight :
           \E up \in (IF Process(env, inflight[i].request, 200).posts = 1
                      THEN Upstreams ELSE {200}) :
               ProxySet(i, up)

SpecRace == InitRace /\ [][NextRace]_vars

(***************************************************************************)
(* Properties.                                                             *)
(***************************************************************************)
WriteCalls == {i \in DOMAIN calls : calls[i].verb \in {"POST", "PUT"}}

EmbedCount(els) == Cardinality({i \in DOMAIN els : els[i].Type = "EmbeddedData"})

HoldsQuestion(b, qid) ==
    \E i \in DOMAIN blocks[b].BlockElements :
        blocks[b].BlockElements[i] = [Type |-> "Question", QuestionID |-> qid]

\* C1: a run that follows a successful run with the same configuration,
\* with no remote change in between, issues no POST and no PUT.
C1_SecondRunIssuesNoWrite == prev = "ok" => WriteCalls = {}

\* C2: no PUT is issued whose body equals the object as the step read it:
\* a step writes an object only when it differs from the desired state.
C2_NoWriteWithoutDiff ==
    \A i \in DOMAIN calls : calls[i].verb = "PUT" => ~calls[i].same

\* C3: while more than one question carries the managed tag, every run ends
\* in Step 2 with the ambiguity error as soon as the lookup has returned, no
\* run completes, and no run issues a POST or PUT.
C3_DuplicateTagAborts ==
    Cardinality({i \in DOMAIN questions : questions[i].DataExportTag = Tag}) > 1
    => /\ pc \in {"s1_get_survey", "s2_find", "failed"}
       /\ WriteCalls = {}
       /\ Len(calls) <= 2
       /\ (Len(calls) = 2 /\ ~calls[2].raised)
            => (pc = "failed" /\ err = "ambiguous" /\ status = 1)

\* C3: a second run on the unchanged survey has aborted on the duplicate.
C3_Witness ==
    /\ run = 2 /\ prev = "failed"
    /\ pc = "failed" /\ err = "ambiguous" /\ Len(calls) = 2
    /\ Cardinality({i \in DOMAIN questions : questions[i].DataExportTag = Tag}) > 1

\* C4: once Step 3 has completed, the question is in the element list of
\* the target block and in the element list of no other block.
C4_ExclusiveMembership ==
    pc = "s4_get_flow"
    => /\ chatbot_block_id \in DOMAIN blocks
       /\ blocks[chatbot_block_id].Description = "AI Chatbot"
       /\ HoldsQuestion(chatbot_block_id, question_qid)
       /\ \A b \in DOMAIN blocks :
            b # chatbot_block_id => ~HoldsQuestion(b, question_qid)

\* C4: Step 3 completed after taking the question out of two foreign blocks
\* and adding it to a target block that was there.
C4_Witness ==
    /\ pc = "s4_get_flow"
    /\ ~created_new_block
    /\ Cardinality({i \in DOMAIN calls :
            calls[i].verb = "PUT" /\ calls[i].obj = "block"}) = 3

\* C5: a successful run that follows a failed run, the target block having
\* been created by an earlier run, leaves exactly one flow element that
\* references the target block, and that block holds the question.
C5_ConvergesAfterFailure ==
    (pc = "done" /\ prev = "failed" /\ blockPostedRun # 0 /\ blockPostedRun < run)
    => /\ Cardinality({i \in DOMAIN flow :
                flow[i].Type = "Standard" /\ flow[i].ID = chatbot_block_id}) = 1
       /\ HoldsQuestion(chatbot_block_id, question_qid)

\* the elements of the flow Step 4 read, other than its first EmbeddedData one
OthersOf(els) == {i \in DOMAIN els : i # EmbedIndex(els)}

\* C6: after Step 4 the first EmbeddedData element of the flow it found is
\* at index 0 (a new one when there was none, with an id no element had),
\* and the other elements are all there, unchanged and in the same order.
C6_FlowOrdering ==
    pc = "done"
    => /\ flow[1].Type = "EmbeddedData"
       /\ IF EmbedCount(flowStart) = 0
          THEN /\ Len(flow) = Len(flowStart) + 1
               /\ \A i \in DOMAIN flowStart : flow[1].FlowID # flowStart[i].FlowID
          ELSE /\ Len(flow) = Len(flowStart)
               /\ flow[1].FlowID = flowStart[EmbedIndex(flowStart)].FlowID
               /\ \A i \in 1..(EmbedIndex(flowStart) - 1) :
                    flowStart[i].Type # "EmbeddedData"
       /\ \A i \in OthersOf(flowStart) :
            \E p \in 2..Len(flow) : flow[p] = flowStart[i]
       /\ \A i, j \in OthersOf(flowStart) :
            i < j => \E p, r \in 2..Len(flow) :
                        p < r /\ flow[p] = flowStart[i] /\ flow[r] = flowStart[j]

\* C6: Step 4 moved the element from index 3 of a 4-element flow to index 0.
C6_Witness ==
    /\ pc = "done"
    /\ Len(flowStart) = 4
    /\ EmbedCount(flowStart) = 1
    /\ flowStart[4].Type = "EmbeddedData"
    /\ flow[1].FlowID = flowStart[4].FlowID

\* C7 as stated: after a successful run the flow holds exactly one
\* EmbeddedData element, at position 0.
C7_ExactlyOneEmbedded ==
    pc = "done" => (EmbedCount(flow) = 1 /\ flow[1].Type = "EmbeddedData")

\* C7 as amended: after a successful run position 0 holds an EmbeddedData
\* element; the flow holds exactly one when the run started from none or
\* one, and as many as it started from when it started from several.
C7_EmbeddedFirstNoneRemoved ==
    pc = "done"
    => /\ flow[1].Type = "EmbeddedData"
       /\ EmbedCount(flow) =
            IF EmbedCount(flowStart) = 0 THEN 1 ELSE EmbedCount(flowStart)

\* C7: a run has succeeded on a flow that held two EmbeddedData elements,
\* neither of them first.
C7_Witness ==
    /\ pc = "done"
    /\ EmbedCount(flowStart) = 2
    /\ flowStart[1].Type # "EmbeddedData"
    /\ EmbedCount(flow) = 2

KeyRank(k) == CHOOSE i \in DOMAIN KeyOrder : KeyOrder[i] = k

\* C8: the merged list keeps every existing field at its position, unchanged
\* when its key is not desired and with the desired value when it is, and
\* ends with one field per desired key that was absent, in sorted key order.
C8_FieldMerge ==
    fnDone
    => LET cur == fnArg.current
           data == fnArg.data
           absent == {k \in DOMAIN data : \A i \in DOMAIN cur : cur[i].Field # k}
       IN  /\ Len(fnRes) = Len(cur) + Cardinality(absent)
           /\ \A i \in DOMAIN cur :
                IF cur[i].Field \in DOMAIN data
                THEN /\ fnRes[i].Field = cur[i].Field
                     /\ fnRes[i].Value = data[cur[i].Field]
                ELSE fnRes[i] = cur[i]
           /\ \A i \in (Len(cur) + 1)..Len(fnRes) :
                /\ fnRes[i].Field \in absent
                /\ fnRes[i].Value = data[fnRes[i].Field]
           /\ \A i, j \in (Len(cur) + 1)..Len(fnRes) :
                i < j => KeyRank(fnRes[i].Field) < KeyRank(fnRes[j].Field)

\* C8: existing {a:1, b:2} merged with desired {b:1, c:2}: a is untouched,
\* b is overwritten, c is appended.
C8_Witness ==
    /\ fnDone
    /\ Len(fnArg.current) = 2
    /\ fnArg.current[1].Field = "a" /\ fnArg.current[1].Value = "1"
    /\ fnArg.current[2].Field = "b" /\ fnArg.current[2].Value = "2"
    /\ DOMAIN fnArg.data = {"b", "c"}
    /\ fnArg.data["b"] = "1" /\ fnArg.data["c"] = "2"
    /\ Len(fnRes) = 3 /\ fnRes[2].Value = "1" /\ fnRes[3].Field = "c"

IdempotentVerbs == {"GET", "HEAD", "OPTIONS", "PUT", "DELETE"}

\* an attempt that ended in a network failure or a retryable status
Transient(r) == r.net \/ r.status \in {429, 500, 502, 503, 504}

Success(r) == ~r.net /\ r.status \in 200..299

\* the answers so far are k transient failures followed by a success
FailuresThenSuccess ==
    /\ Len(hist) >= 1
    /\ \A i \in 1..(Len(hist) - 1) : Transient(hist[i])
    /\ Success(hist[Len(hist)])

\* C10, idempotent verbs: k transient failures and then a success, with
\* k < max_attempts, end in a return after k+1 attempts and k sleeps; and
\* the call never raises on a transient failure while attempts remain.
C10_IdempotentRetried ==
    method \in IdempotentVerbs
    => /\ (FailuresThenSuccess /\ Len(hist) - 1 < max_attempts)
            => (outcome = "returned" /\ attempt = Len(hist)
                /\ sleeps = Len(hist) - 1)
       /\ (outcome = "raised" /\ Len(hist) >= 1 /\ Len(hist) < max_attempts)
            => ~Transient(hist[Len(hist)])

\* C10, POST: it ends after exactly one attempt and no sleep, and a
\* transient failure of that attempt raises.
C10_PostOnce ==
    /\ (outcome # "running" => (Len(hist) = 1 /\ sleeps = 0))
    /\ (Len(hist) >= 1 /\ Transient(hist[1]))
            => (outcome = "raised" /\ Len(hist) = 1 /\ sleeps = 0)

\* C10 as stated.
C10_RetryOnlyIdempotent ==
    /\ C10_IdempotentRetried
    /\ method = "POST" => C10_PostOnce

\* C10 as amended: the POST half holds when max_attempts is at least 1.
C10_RetryOnlyIdempotentConfigured ==
    /\ C10_IdempotentRetried
    /\ (method = "POST" /\ max_attempts >= 1) => C10_PostOnce

\* C10: a GET answered 503, 503, 200 has returned after 3 attempts, 2 sleeps.
C10_Witness ==
    /\ method = "GET"
    /\ outcome = "returned"
    /\ Len(hist) = 3 /\ attempt = 3 /\ sleeps = 2
    /\ hist[1].status = 503 /\ hist[2].status = 503 /\ hist[3].status = 200

C13_BackoffDuration ==
    fnDone
    => IF ~fnArg.net /\ fnArg.header.kind = "digits"
       THEN fnRes = fnArg.header.secs * TicksPerSecond
       ELSE LET exp == fnArg.base * (2 ^ (fnArg.attempt - 1)) + fnArg.jitter
            IN  /\ fnRes = IF exp < fnArg.cap THEN exp ELSE fnArg.cap
                /\ fnRes <= fnArg.cap

\* C13: Retry-After: 3 with a cap of 2 seconds gives a sleep of 3 seconds.
C13_Witness ==
    /\ fnDone
    /\ ~fnArg.net
    /\ fnArg.header = [kind |-> "digits", secs |-> 3]
    /\ fnArg.cap = 2 * TicksPerSecond
    /\ fnRes = 3 * TicksPerSecond

\* C14: a call that raised is the last call of its run, and the run has
\* failed; the step that fails makes one call and, unless that call is a
\* write, leaves the survey as it was; after the failure the run makes no call
\* and the survey stays as it is, every write applied before included.
C14_AbortNoRollback ==
    /\ [](\A i \in DOMAIN calls :
            calls[i].raised => (i = Len(calls) /\ pc = "failed" /\ status = 1))
    /\ [][(pc # "failed" /\ pc' = "failed")
            => /\ Len(calls') = Len(calls) + 1
               /\ SubSeq(calls', 1, Len(calls)) = calls
               /\ (calls'[Len(calls')].verb = "GET"
                    => (questions' = questions /\ blocks' = blocks
                        /\ flow' = flow))]_vars
    /\ [][pc = "failed"
            => /\ questions' = questions /\ blocks' = blocks /\ flow' = flow
               /\ (run' = run => calls' = calls)]_vars

\* C14: a run created the question and the block, then a call of Step 3
\* raised; question and block are still there.
C14_Witness ==
    /\ pc = "failed"
    /\ Len(calls) >= 5
    /\ calls[Len(calls)].raised
    /\ calls[Len(calls)].verb = "GET"
    /\ \E i \in DOMAIN calls : calls[i].verb = "POST" /\ calls[i].obj = "question"
    /\ \E i \in DOMAIN calls : calls[i].verb = "POST" /\ calls[i].obj = "block"
    /\ is_new /\ questions[question_qid].DataExportTag = Tag
    /\ created_new_block
    /\ blocks[chatbot_block_id].Description = "AI Chatbot"

\* C15: the calls of a run are in step order, starting with Step 1; Step 1
\* makes a single GET; every POST or PUT comes after the GET of Step 1 has
\* returned; every call of Step 3 or Step 4 comes after Step 2 has made its
\* calls without an error and holds the question id.
C15_StepOrder ==
    /\ \A i, j \in DOMAIN calls : i < j => calls[i].step <= calls[j].step
    /\ \A i \in DOMAIN calls :
        /\ (i = 1 => calls[i].step = 1)
        /\ (calls[i].step = 1 => (i = 1 /\ calls[i].verb = "GET"))
        /\ (calls[i].verb \in {"POST", "PUT"}
                => (i > 1 /\ ~calls[1].raised))
        /\ (calls[i].step >= 3
                => /\ question_qid \in DOMAIN questions
                   /\ questions[question_qid].DataExportTag = Tag
                   /\ \E j \in 1..(i - 1) : calls[j].step = 2
                   /\ \A j \in 1..(i - 1) : ~calls[j].raised)

\* C15: a run that created the question and the block has gone through the
\* four steps.
C15_Witness ==
    /\ pc = "done"
    /\ \A st \in 1..4 : \E i \in DOMAIN calls : calls[i].step = st
    /\ \E i \in DOMAIN calls : calls[i].verb = "POST" /\ calls[i].obj = "question"
    /\ \E i \in DOMAIN calls : calls[i].verb = "PUT" /\ calls[i].obj = "block"

\* the calls the current run has issued in a step, by verb
StepCalls(st, verbs) ==
    {i \in DOMAIN calls : calls[i].step = st /\ calls[i].verb \in verbs}

\* Step 2 of the current run has returned
Step2Returned ==
    pc = "s3_get_blocks" \/ \E i \in DOMAIN calls : calls[i].step >= 3

\* C16: when Step 2 has returned: if the run started with no question
\* carrying the tag, Step 2 issued one POST and no PUT, and returned a new
\* id with wasCreated true; if it started with exactly one, Step 2 issued no
\* POST, returned that question's id with wasCreated false, and issued one PUT
\* if its text differed from the desired text and none if it did not.  In
\* both cases the question returned carries the tag and the desired text.
C16_QuestionUpsert ==
    Step2Returned
    => LET old == surveyStart.questions
           matches == {i \in DOMAIN old : old[i].DataExportTag = Tag}
           posts == Cardinality(StepCalls(2, {"POST"}))
           puts == Cardinality(StepCalls(2, {"PUT"}))
       IN  /\ Cardinality(matches) <= 1
           /\ question_qid \in DOMAIN questions
           /\ questions[question_qid].DataExportTag = Tag
           /\ questions[question_qid].QuestionText = desired_text
           /\ IF matches = {}
              THEN /\ posts = 1 /\ puts = 0
                   /\ is_new
                   /\ question_qid \notin DOMAIN old
                   /\ Len(questions) = Len(old) + 1
              ELSE /\ posts = 0
                   /\ ~is_new
                   /\ question_qid \in matches
                   /\ Len(questions) = Len(old)
                   /\ puts = IF old[question_qid].QuestionText # desired_text
                             THEN 1 ELSE 0

\* C16: Step 2 has returned the one tagged question after overwriting its
\* stale text.
C16_Witness ==
    /\ pc = "s3_get_blocks"
    /\ ~is_new
    /\ surveyStart.questions[question_qid].QuestionText = "stale"
    /\ questions[question_qid].QuestionText = desired_text
    /\ Cardinality(StepCalls(2, {"PUT"})) = 1

\* C17: when Step 3 has created the target block and written the flow, the
\* flow holds one element more than the flow Step 3 read: the new element,
\* at index 1, references the target block and follows an EmbeddedData
\* element at index 0, its FlowID is carried by no element of the flow read,
\* and without it the flow is the flow read.
C17_BlockPlacedAfterEmbedded ==
    (pc = "s4_get_flow" /\ created_new_block)
    => /\ Len(flow) = Len(flow_elements) + 1
       /\ Len(flow) >= 2
       /\ flow[1].Type = "EmbeddedData"
       /\ flow[2].Type = "Standard"
       /\ flow[2].ID = chatbot_block_id
       /\ \A i \in DOMAIN flow_elements : flow_elements[i].FlowID # flow[2].FlowID
       /\ flow_elements = [i \in 1..(Len(flow) - 1) |->
                              IF i < 2 THEN flow[i] ELSE flow[i + 1]]

\* the blocks, other than the target block, that held the question when the
\* run started
ForeignHolders ==
    LET old == surveyStart.blocks
        targets == {b \in DOMAIN old : old[b].Description = "AI Chatbot"}
    IN  {b \in DOMAIN old :
            /\ \E i \in DOMAIN old[b].BlockElements :
                old[b].BlockElements[i]
                    = [Type |-> "Question", QuestionID |-> question_qid]
            /\ (old[b].Description # "AI Chatbot" \/ \E t \in targets : t < b)}

\* the target block was there when the run started and held the question
TargetHeld ==
    LET old == surveyStart.blocks
        targets == {b \in DOMAIN old : old[b].Description = "AI Chatbot"}
    IN  \E t \in targets :
            /\ \A u \in targets : t <= u
            /\ \E i \in DOMAIN old[t].BlockElements :
                old[t].BlockElements[i]
                    = [Type |-> "Question", QuestionID |-> question_qid]

\* the calls the current run has issued in a step on a kind of object
StepCallsOn(st, verbs, obj) ==
    {i \in StepCalls(st, verbs) : calls[i].obj = obj}

\* C18 as stated: every step of a run issues at most one read and at most
\* one write.
C18_OneReadOneWrite ==
    \A st \in 1..4 :
        /\ Cardinality(StepCalls(st, {"GET"})) <= 1
        /\ Cardinality(StepCalls(st, {"POST", "PUT"})) <= 1

\* C18 as amended: Step 1 issues one read; Step 2 at most three reads and
\* one write; Step 3 at most three reads, one POST, one PUT for each foreign
\* block that held the question, one PUT of the target block unless it held
\* the question, and one PUT of the flow; Step 4 one read and one write.
C18_CallBudget ==
    /\ Cardinality(StepCalls(1, {"GET"})) <= 1
    /\ StepCalls(1, {"POST", "PUT"}) = {}
    /\ Cardinality(StepCalls(2, {"GET"})) <= 3
    /\ Cardinality(StepCalls(2, {"POST", "PUT"})) <= 1
    /\ Cardinality(StepCalls(3, {"GET"})) <= 3
    /\ Cardinality(StepCalls(3, {"POST"})) <= 1
    /\ Cardinality(StepCallsOn(3, {"PUT"}, "block"))
            <= Cardinality(ForeignHolders) + (IF TargetHeld THEN 0 ELSE 1)
    /\ Cardinality(StepCallsOn(3, {"PUT"}, "flow")) <= 1
    /\ Cardinality(StepCalls(4, {"GET"})) <= 1
    /\ Cardinality(StepCalls(4, {"POST", "PUT"})) <= 1

\* C18: a run has succeeded whose Step 2 made three reads and a PUT and
\* whose Step 3 made three reads, a POST and four PUTs.
C18_Witness ==
    /\ pc = "done"
    /\ Cardinality(StepCalls(2, {"GET"})) = 3
    /\ Cardinality(StepCalls(2, {"PUT"})) = 1
    /\ Cardinality(StepCalls(3, {"GET"})) = 3
    /\ Cardinality(StepCalls(3, {"POST"})) = 1
    /\ Cardinality(StepCallsOn(3, {"PUT"}, "block")) = 3
    /\ Cardinality(StepCallsOn(3, {"PUT"}, "flow")) = 1

\* C19: when the GET of Step 1 failed with status 403, 404 or 400, the error
\* verify_survey_exists raises equals the error _req raised in every
\* attribute but the message, the attempt count included; after any other
\* failure it is the error _req raised.
C19_DiagnosticsPreserved ==
    fnDone
    => IF fnRes.orig.status_code \in {403, 404, 400}
       THEN /\ [fnRes.raised EXCEPT !.message = ""]
                    = [fnRes.orig EXCEPT !.message = ""]
            /\ fnRes.raised.message # fnRes.orig.message
       ELSE fnRes.raised = fnRes.orig

\* els without the elements that reference question qid
WithoutQuestion(els, qid) ==
    SelectSeq(els, LAMBDA el : el # [Type |-> "Question", QuestionID |-> qid])

\* a flow element is still in the flow, with every field it had
KeptIn(el, els) ==
    \E j \in DOMAIN els :
        /\ els[j].FlowID = el.FlowID
        /\ els[j].Type = el.Type
        /\ els[j].ID = el.ID
        /\ \A k \in DOMAIN el.EmbeddedData :
            \E l \in DOMAIN els[j].EmbeddedData :
                els[j].EmbeddedData[l].Field = el.EmbeddedData[k].Field

\* C20: no step of any run removes a question, a block, a flow element or
\* an embedded-data field; a block's element list is left as it is, or gets
\* the managed question appended, or, in a block other than the target
\* block, loses exactly the elements that reference the managed question, the
\* others staying in their order.
C20_NothingDeleted ==
    [][/\ Len(questions') >= Len(questions)
       /\ \A i \in DOMAIN questions :
            questions'[i].DataExportTag = questions[i].DataExportTag
       /\ Len(blocks') >= Len(blocks)
       /\ \A b \in DOMAIN blocks :
            /\ blocks'[b].Description = blocks[b].Description
            /\ \/ blocks'[b].BlockElements = blocks[b].BlockElements
               \/ blocks'[b].BlockElements
                    = Append(blocks[b].BlockElements,
                             [Type |-> "Question", QuestionID |-> question_qid])
               \/ /\ b # chatbot_block_id
                  /\ blocks'[b].BlockElements
                        = WithoutQuestion(blocks[b].BlockElements, question_qid)
       /\ Len(flow') >= Len(flow)
       /\ \A i \in DOMAIN flow : KeptIn(flow[i], flow')]_vars

\* C20: a run has succeeded that took the managed question out of a foreign
\* block holding another element, which is still there.
C20_Witness ==
    /\ pc = "done"
    /\ \E b \in DOMAIN surveyStart.blocks :
        /\ b # chatbot_block_id
        /\ Len(surveyStart.blocks[b].BlockElements) = 2
        /\ Len(blocks[b].BlockElements) = 1
        /\ blocks[b].BlockElements[1].QuestionID # question_qid

\* The two invocations of SpecConc.
Invocations == {Running, other}

Finished(inv) == inv.pc \in {"done", "failed"}

\* The invocation's call (step st, PUT of the flow) returned: the step has
\* logged its change of the flow as applied.
FlowPutReturned(inv, st) ==
    \E i \in DOMAIN inv.calls :
        /\ inv.calls[i].step = st /\ inv.calls[i].verb = "PUT"
        /\ inv.calls[i].obj = "flow" /\ ~inv.calls[i].raised

HasBlockElement(els, b) ==
    \E i \in DOMAIN els : els[i].Type = "Standard" /\ els[i].ID = b

HasDesiredFields(els) ==
    /\ els # <<>>
    /\ els[1].Type = "EmbeddedData"
    /\ \A k \in {"a", "b"} :
        \E j \in DOMAIN els[1].EmbeddedData :
            /\ els[1].EmbeddedData[j].Field = k
            /\ els[1].EmbeddedData[j].Value = (IF k = "a" THEN "1" ELSE "2")

\* A change of the flow the invocation reported as applied is missing from
\* the remote flow: the element of the block it created, or the embedded
\* data it wrote.
LostUpdate(inv) ==
    \/ FlowPutReturned(inv, 3) /\ ~HasBlockElement(flow, inv.chatbot_block_id)
    \/ FlowPutReturned(inv, 4) /\ ~HasDesiredFields(flow)

\* C21: a change of the flow that an invocation reported as applied is never
\* missing from the remote flow unless the two invocations overlapped: with
\* the runs serialized no update is lost.  (The witness is the interleaving
\* in which one is lost.)
C21_LostUpdateOnlyIfOverlapped ==
    \A inv \in Invocations : LostUpdate(inv) => overlapped

\* Both invocations have returned 0, their calls were interleaved, and the
\* remote flow lacks the element of the block one of them created and
\* inserted.
C21_Witness ==
    /\ \A inv \in Invocations : inv.pc = "done" /\ inv.status = 0
    /\ overlapped
    /\ \E inv \in Invocations :
        FlowPutReturned(inv, 3) /\ ~HasBlockElement(flow, inv.chatbot_block_id)

\* Steps 1-4 of the run have completed without error: every call returned,
\* no check raised, and the last call is the flow PUT that ends Step 4.
AllStepsCompleted ==
    /\ calls # <<>>
    /\ \A i \in DOMAIN calls : ~calls[i].raised
    /\ {calls[i].step : i \in DOMAIN calls} = {1, 2, 3, 4}
    /\ calls[Len(calls)] = [step |-> 4, verb |-> "PUT", obj |-> "flow",
                            same |-> calls[Len(calls)].same, raised |-> FALSE]
    /\ err = "none"

\* C22: main's completion status is 0 exactly when all four steps have
\* completed without error; an error raised by a remote call or by the
\* ambiguity check of Step 2 gives a status that is not 0, and so does a
\* missing API token.
C22_CompletionStatus ==
    /\ (status = 0) <=> AllStepsCompleted
    /\ (status = 0) <=> (pc = "done")
    /\ (err # "none" \/ \E i \in DOMAIN calls : calls[i].raised)
            => status \notin {0, -1}
    /\ (config.api_token = "" /\ pc # "main")
            => (status \notin {0, -1} /\ calls = <<>>)
    /\ pc \in {"failed", "no_token", "invalid"} => status \notin {0, -1}

\* A run that created the question and the block has returned 0 after its
\* fourth step.
C22_Witness ==
    /\ pc = "done" /\ status = 0
    /\ is_new /\ created_new_block
    /\ config.api_token # ""

\* C23: when the run starts with the target block in place, holding the
\* managed question, and no other block holds it, Step 3 issues no POST and
\* no PUT and neither reads nor writes the flow; and Step 3 reads or writes
\* the flow only in a run in which its own POST created the target block.
C23_Step3Idempotent ==
    /\ (TargetHeld /\ ForeignHolders = {}) =>
        /\ StepCalls(3, {"POST", "PUT"}) = {}
        /\ StepCallsOn(3, {"GET", "PUT", "POST"}, "flow") = {}
        /\ \A i \in DOMAIN calls :
            calls[i].step = 3 =>
                (calls[i].verb = "GET" /\ calls[i].obj = "survey")
    /\ StepCallsOn(3, {"GET", "PUT", "POST"}, "flow") # {} =>
        /\ created_new_block
        /\ blockPostedRun = run
        /\ \E i \in DOMAIN calls :
            /\ calls[i].step = 3 /\ calls[i].verb = "POST"
            /\ calls[i].obj = "block" /\ ~calls[i].raised

\* Step 3 has returned after its one GET: the target block was the second
\* of two blocks and held the question.
C23_Witness ==
    /\ pc = "s4_get_flow"
    /\ TargetHeld /\ ForeignHolders = {}
    /\ Len(blocks) >= 2
    /\ Len(calls) = 1
    /\ calls[1].verb = "GET"

Tagged(qs) == {i \in DOMAIN qs : qs[i].DataExportTag = "chat_ui"}

\* C25: serialized runs preserve tag uniqueness: no step of a run, whether
\* its call returns, fails, or is applied with its response lost, takes a
\* survey with at most one question carrying the managed tag to a survey
\* with more than one.
C25_TagUniquenessPreserved ==
    [][Cardinality(Tagged(questions)) <= 1
        => Cardinality(Tagged(questions')) <= 1]_vars

\* A run found no question with the tag; its POST created one, and the
\* response was lost: the run has failed and the survey holds one tagged
\* question.
C25_Witness ==
    /\ pc = "failed"
    /\ Tagged(surveyStart.questions) = {}
    /\ calls # <<>>
    /\ calls[Len(calls)] = [step |-> 2, verb |-> "POST", obj |-> "question",
                            same |-> FALSE, raised |-> TRUE]
    /\ Cardinality(Tagged(questions)) = 1
    /\ Len(questions) = Len(surveyStart.questions) + 1

\* the invocation's creation POST of Step 2 returned
QuestionPosted(inv) ==
    \E i \in DOMAIN inv.calls :
        /\ inv.calls[i].step = 2 /\ inv.calls[i].verb = "POST"
        /\ inv.calls[i].obj = "question" /\ ~inv.calls[i].raised

\* C26: of two invocations with the same tag, started on a survey with at
\* most one question carrying it, the survey comes to hold more than one
\* such question only when their calls overlapped: serialized, the runs keep
\* the tag unique.  (The witness is the interleaving that creates two.)
C26_DuplicateOnlyIfOverlapped ==
    (Cardinality(Tagged(surveyStart.questions)) <= 1
        /\ Cardinality(Tagged(questions)) > 1) => overlapped

\* The survey held no question with the tag; both invocations found none,
\* both POSTs returned, and the survey holds two questions with the tag.
C26_Witness ==
    /\ Tagged(surveyStart.questions) = {}
    /\ \A inv \in Invocations : QuestionPosted(inv) /\ inv.is_new
    /\ Running.question_qid # other.question_qid
    /\ Cardinality(Tagged(questions)) = 2
    /\ overlapped

\* the merged field list main validates: every key is non-empty, has no
\* space, and occurs once
MergedKeysValid ==
    LET fields == GenerateEmbeddedDataFields(all_data)
    IN  /\ \A i \in DOMAIN fields :
            fields[i].key # "" /\ fields[i].key \notin {"a b", " "}
        /\ \A i, j \in DOMAIN fields : i # j => fields[i].key # fields[j].key
        /\ {fields[i].key : i \in DOMAIN fields} = DOMAIN all_data

\* field lists of up to MaxKeyList fields, over keys that are empty, hold a
\* space, or are plain
KeyLists ==
    SeqsUpTo({[key |-> k, value |-> "1", type |-> "text"] :
                k \in {"", "a b", "a", "b"}}, MaxKeyList)

\* C27: main issues a remote call only when the API token is present,
\* validate_inputs has accepted the configuration and
\* validate_embedded_field_keys has accepted the merged field list (it
\* accepts a list exactly when every key is non-empty, has no space and
\* occurs once); a run that one of the checks ends has made no remote call.
C27_ValidationBeforeTraffic ==
    /\ calls # <<>> =>
        /\ config.api_token # ""
        /\ InputErrors(config) = {}
        /\ MergedKeysValid
    /\ pc \in CallPcs =>
        config.api_token # "" /\ InputErrors(config) = {} /\ MergedKeysValid
    /\ (config.api_token = "" \/ InputErrors(config) # {}) =>
        (pc \in {"main", "no_token", "invalid"} /\ calls = <<>>)
    /\ pc \in {"no_token", "invalid"} => calls = <<>>
    /\ \A fs \in KeyLists :
        ValidateEmbeddedFieldKeys(fs) <=>
            /\ \A i \in DOMAIN fs : fs[i].key \notin {"", "a b", " "}
            /\ \A i, j \in DOMAIN fs : i # j => fs[i].key # fs[j].key

\* The token is present and the temperature is out of range: validate_inputs
\* has raised and the run has ended without a remote call.
C27_Witness ==
    /\ pc = "invalid"
    /\ config.api_token # ""
    /\ InputErrors(config) = {"temperature"}
    /\ calls = <<>>
    /\ status = 1


\* C28: when the value of SERVICE_ENABLED, lowercased, is not 'true' (an
\* unset variable reads as 'true'), every request handled, whatever its
\* method, origin and token, is answered 503, no request is sent upstream,
\* and the rate-limit store is neither read nor written.
C28_KillSwitch ==
    (handled >= 1 /\ ~EnvIsTrue(env, "SERVICE_ENABLED", "true"))
    => /\ response = 503
       /\ forwarded = 0
       /\ store_ops = NoOps
       /\ ip_doc = NoDoc

C28_Witness ==
    /\ handled >= 1
    /\ env.SERVICE_ENABLED = "false"
    /\ request.method = "OPTIONS"
    /\ request.origin = "https://evil"
    /\ response = 503

\* every check of stanford_proxy that a request passes before it is sent
\* upstream, written from the environment, the request and the document
\* stored for the client IP when the request arrives
C29_Enabled == env.SERVICE_ENABLED \in {Unset, "true", "True", "TRUE"}

C29_OriginOk(r) ==
    env.ORIGIN_CHECK_ENABLED \in {"false", "False"}
    \/ r.origin \in {"https://a", "https://b"}

C29_TokenOk(r) ==
    env.ENDPOINT_KEY_ENABLED \in {Unset, "false", "False"}
    \/ r.token = env.ENDPOINT_KEY

C29_Limited(t) ==
    /\ env.IP_LIMITING_ENABLED \in {Unset, "true", "True", "TRUE"}
    /\ ip_doc.exists
    /\ \/ ip_doc.total_calls >= env.IP_MAX_CALLS
       \/ ip_doc.rate_limit_errors >= env.IP_MAX_RATE_LIMIT_ERRORS
       \/ t - ip_doc.last_call <= env.IP_RATE_LIMIT

C29_Keyed == env.STANFORD_API_KEY # Unset

C30_CapPermanent ==
    [][handled' = handled + 1 =>
        /\ ip_doc'.total_calls = ip_doc.total_calls + 1
        /\ ip_doc.total_calls >= env.IP_MAX_CALLS
               => (response' = 429 /\ forwarded' = forwarded)
        /\ forwarded' <= env.IP_MAX_CALLS
    ]_vars


\* C31: with several requests of one IP handled at once, the number of
\* requests forwarded upstream never exceeds IP_MAX_CALLS, and two requests
\* that arrive within IP_RATE_LIMIT seconds of each other are never both
\* forwarded.
C31_CapUnderConcurrency ==
    /\ forwarded <= env.IP_MAX_CALLS
    /\ \A i, j \in DOMAIN inflight :
           (i # j /\ inflight[i].posts = 1 /\ inflight[j].posts = 1)
           => \/ inflight[i].t - inflight[j].t > env.IP_RATE_LIMIT
              \/ inflight[j].t - inflight[i].t > env.IP_RATE_LIMIT

====
